---- MODULE Spec2Model ----
\* State-machine model of the DICOM de-identification controller
\* (src/src/anonymizer/controller/anonymizer.py) together with the
\* anonymizer model it drives (maps, counters, persistence).
EXTENDS Integers, Sequences, FiniteSets, TLC

\* ------------------------------------------------------------------ bounds
\* number of datasets a producer enqueues before stop()
MaxDatasets == 2

\* number of times the process may end and start again
MaxCrashes == 2

\* number of calls of anonymize_file
MaxFiles == 2

\* number of data rows of a pseudo-key file
MaxRows == 3

\* ------------------------------------------------------- program constants
NUMBER_OF_DATASET_WORKER_THREADS == 2

Workers == 1..NUMBER_OF_DATASET_WORKER_THREADS

\* the thread that calls anonymize_file is not one of the workers
Caller == 0
Threads == Workers \cup {Caller}

\* project configuration strings (site id and uid root of the project model)
SiteID == "9"
UIDRoot == "1.2"

\* Python None as returned by dict.get / a missing attribute of a dataset
NoneVal == "<None>"
ABSENT == "<absent>"

\* ------------------------------------------------------------ plain maps
EmptyMap == [x \in {} |-> NoneVal]

Lookup(m, k) == IF k \in DOMAIN m THEN m[k] ELSE NoneVal

Put(m, k, v) == [x \in (DOMAIN m) \cup {k} |-> IF x = k THEN v ELSE m[x]]

Del(m, k) == [x \in (DOMAIN m) \ {k} |-> m[x]]

Range(m) == {m[x] : x \in DOMAIN m}

\* ------------------------------------------------- anon value formatting
\* "{uid_root}.{site}.{n}"
AnonUID(n) == UIDRoot \o "." \o SiteID \o "." \o ToString(n)

\* accession counter values formatted as decimal strings
AnonAcc(n) == ToString(n)

RECURSIVE zfill(_, _)
zfill(s, width) == IF Len(s) >= width THEN s ELSE zfill("0" \o s, width)

\* "{site}-{n:06d}"
AnonPID(n) == SiteID \o "-" \o zfill(ToString(n), 6)

default_anon_pt_id == AnonPID(0)

\* --------------------------------------------------- the anonymizer model
\* A new default model: empty maps, counters at zero, the empty PHI patient
\* id bound to the default anon patient id.
NewModel ==
  [ uid_map |-> EmptyMap, uid_inv |-> EmptyMap,
    acc_map |-> EmptyMap, acc_inv |-> EmptyMap,
    patient_id_map |-> Put(EmptyMap, "", default_anon_pt_id),
    patient_id_inv |-> Put(EmptyMap, default_anon_pt_id, ""),
    next_uid_counter |-> 0,
    next_patient_counter |-> 0,
    next_accession_counter |-> 0,
    quarantined_count |-> 0 ]

get_anon_uid(m, phi_uid) == Lookup(m.uid_map, phi_uid)

get_anon_acc_no(m, phi_acc) == Lookup(m.acc_map, phi_acc)

get_anon_patient_id(m, phi_pid) == Lookup(m.patient_id_map, phi_pid)

\* drop the pair a key currently has from the inverse of a bidirectional map
DropOld(fwd, inv, k) == IF k \in DOMAIN fwd THEN Del(inv, fwd[k]) ELSE inv

\* get_next_anon_uid that formats the next value and forgets to store the
\* advanced counter
get_next_anon_uid_stale_counter(m, phi_uid) ==
  LET n == m.next_uid_counter + 1
  IN  [m EXCEPT !.uid_map = Put(m.uid_map, phi_uid, AnonUID(n)),
                !.uid_inv = Put(DropOld(m.uid_map, m.uid_inv, phi_uid), AnonUID(n), phi_uid)]

\* allocate next_uid_counter += 1 and bind phi_uid to {uid_root}.{site}.{n}
get_next_anon_uid(m, phi_uid) ==
  LET n == m.next_uid_counter + 1
  IN  [m EXCEPT !.next_uid_counter = n,
                !.uid_map = Put(m.uid_map, phi_uid, AnonUID(n)),
                !.uid_inv = Put(DropOld(m.uid_map, m.uid_inv, phi_uid), AnonUID(n), phi_uid)]

get_next_anon_acc_no(m, phi_acc) ==
  LET n == m.next_accession_counter + 1
  IN  [m EXCEPT !.next_accession_counter = n,
                !.acc_map = Put(m.acc_map, phi_acc, AnonAcc(n)),
                !.acc_inv = Put(DropOld(m.acc_map, m.acc_inv, phi_acc), AnonAcc(n), phi_acc)]

get_next_anon_patient_id(m, phi_pid) ==
  LET n == m.next_patient_counter + 1
  IN  [m EXCEPT !.next_patient_counter = n,
                !.patient_id_map = Put(m.patient_id_map, phi_pid, AnonPID(n)),
                !.patient_id_inv = Put(DropOld(m.patient_id_map, m.patient_id_inv, phi_pid), AnonPID(n), phi_pid)]

\* remove_uid that also hands the counter value back
remove_uid_reusing_counter(m, phi_uid) ==
  IF phi_uid \in DOMAIN m.uid_map
    THEN [m EXCEPT !.uid_map = Del(m.uid_map, phi_uid),
                   !.uid_inv = Del(m.uid_inv, m.uid_map[phi_uid]),
                   !.next_uid_counter = @ - 1]
    ELSE m

\* reverse the effect of minting for that UID: the pair leaves both
\* directions of the map; the counter keeps its value
remove_uid(m, phi_uid) ==
  IF phi_uid \in DOMAIN m.uid_map
    THEN [m EXCEPT !.uid_map = Del(m.uid_map, phi_uid),
                   !.uid_inv = Del(m.uid_inv, m.uid_map[phi_uid])]
    ELSE m

increment_quarantined(m) == [m EXCEPT !.quarantined_count = @ + 1]

\* required attributes of a dataset that are absent or empty
required_attributes == {"sopclass", "sop", "study", "series"}

missing_attributes(ds) == {a \in required_attributes : ds[a] = ABSENT \/ ds[a] = ""}

\* capture_phi raises ValueError when the dataset lacks a required UID
capture_phi_raises(ds) == \E a \in required_attributes : ds[a] = ABSENT

MintUidIfNew(m, phi_uid) == IF phi_uid \in DOMAIN m.uid_map THEN m ELSE get_next_anon_uid(m, phi_uid)

MintAccIfNew(m, phi_acc) ==
  IF phi_acc = ABSENT \/ phi_acc \in DOMAIN m.acc_map THEN m ELSE get_next_anon_acc_no(m, phi_acc)

MintPatientIfNew(m, phi_pid) ==
  IF phi_pid \in DOMAIN m.patient_id_map THEN m ELSE get_next_anon_patient_id(m, phi_pid)

\* pseudo-key lookup: pseudo_key_lookup_enabled, quarantine_on_missing_id and
\* the pseudo_key_map loaded from the key file
PseudoKeysOff == [enabled |-> FALSE, quarantine_on_missing_id |-> FALSE, map |-> EmptyMap]

\* a capture_phi that raises MissingMapping whatever quarantine_on_missing_id
missing_mapping_whatever_the_flag(ds, pk) ==
  /\ pk.enabled
  /\ (IF ds.pid = ABSENT THEN "" ELSE ds.pid) \notin DOMAIN pk.map

\* capture_phi raises MissingMapping: lookup is enabled, the PatientID is
\* missing from pseudo_key_map and quarantine_on_missing_id is set
missing_mapping(ds, pk) ==
  /\ pk.enabled
  /\ pk.quarantine_on_missing_id
  /\ (IF ds.pid = ABSENT THEN "" ELSE ds.pid) \notin DOMAIN pk.map

\* the operator-supplied anon id enters the patient map; the patient counter
\* counts this patient too
put_pseudo_key(m, phi_pid, anon_pid) ==
  [m EXCEPT !.next_patient_counter = @ + 1,
            !.patient_id_map = Put(m.patient_id_map, phi_pid, anon_pid),
            !.patient_id_inv = Put(DropOld(m.patient_id_map, m.patient_id_inv, phi_pid), anon_pid, phi_pid)]

\* a patient map that takes whatever anon id pseudo_key_map proposes
resolve_patient_taking_proposal(m, phi_pid, pk) ==
  IF pk.enabled /\ phi_pid \in DOMAIN pk.map THEN put_pseudo_key(m, phi_pid, pk.map[phi_pid])
  ELSE MintPatientIfNew(m, phi_pid)

\* resolve or mint the anon patient id: a patient with an anon id keeps it,
\* whatever pseudo_key_map proposes; a new patient gets the id of
\* pseudo_key_map, or one minted from the patient counter
resolve_patient(m, phi_pid, pk) ==
  IF phi_pid \in DOMAIN m.patient_id_map THEN m
  ELSE IF pk.enabled /\ phi_pid \in DOMAIN pk.map THEN put_pseudo_key(m, phi_pid, pk.map[phi_pid])
  ELSE MintPatientIfNew(m, phi_pid)

\* what capture_phi logs as an error about the patient's anon id
capture_phi_error(m, phi_pid, pk) ==
  IF ~pk.enabled THEN ""
  ELSE IF phi_pid \notin DOMAIN pk.map THEN "No pseudo-anonymized patiend id found"
  ELSE IF phi_pid \in DOMAIN m.patient_id_map /\ m.patient_id_map[phi_pid] # pk.map[phi_pid]
    THEN "Two anonymized patient ids found"
  ELSE ""

\* capture_phi under the model lock: resolve or mint the anon patient id
\* (a missing PatientID counts as empty), record study, series and SOP
\* instance in that order, mint the anon accession number if new
capture_phi_keys(m, ds, pk) ==
  LET phi_ptid == IF ds.pid = ABSENT THEN "" ELSE ds.pid
      m1 == resolve_patient(m, phi_ptid, pk)
      m2 == MintUidIfNew(m1, ds.study)
      m3 == MintUidIfNew(m2, ds.series)
      m4 == MintUidIfNew(m3, ds.sop)
  IN  MintAccIfNew(m4, ds.acc)

\* capture_phi of a project without pseudo-key lookup
capture_phi(m, ds) == capture_phi_keys(m, ds, PseudoKeysOff)

\* ------------------------------------------------------ dates and times
DEFAULT_ANON_DATE == "20000101"
DEFAULT_ANON_TIME == "000000"

Digits == <<"0", "1", "2", "3", "4", "5", "6", "7", "8", "9">>

Char(s, i) == SubSeq(s, i, i)

IsDigit(c) == \E k \in 1..10 : Digits[k] = c

DigitVal(c) == (CHOOSE k \in 1..10 : Digits[k] = c) - 1

AllDigits(s) == \A i \in 1..Len(s) : IsDigit(Char(s, i))

\* the value of a string of decimal digits
RECURSIVE ToInt(_)
ToInt(s) == IF s = "" THEN 0 ELSE 10 * ToInt(SubSeq(s, 1, Len(s) - 1)) + DigitVal(Char(s, Len(s)))

\* str.strip() of blanks
RECURSIVE strip(_)
strip(s) ==
  IF s = "" THEN s
  ELSE IF Char(s, 1) = " " THEN strip(SubSeq(s, 2, Len(s)))
  ELSE IF Char(s, Len(s)) = " " THEN strip(SubSeq(s, 1, Len(s) - 1))
  ELSE s

IsLeap(y) == y % 4 = 0 /\ (y % 100 # 0 \/ y % 400 = 0)

DaysInMonth(y, m) ==
  IF m = 2 THEN (IF IsLeap(y) THEN 29 ELSE 28)
  ELSE IF m \in {4, 6, 9, 11} THEN 30 ELSE 31

\* datetime(y, m, d) accepts the triple
IsCalendarDate(y, m, d) ==
  /\ y \in 1..9999
  /\ m \in 1..12
  /\ d >= 1
  /\ d <= DaysInMonth(y, m)

DaysBeforeYear(y) == 365 * (y - 1) + ((y - 1) \div 4) - ((y - 1) \div 100) + ((y - 1) \div 400)

RECURSIVE DaysBeforeMonth(_, _)
DaysBeforeMonth(y, m) == IF m = 1 THEN 0 ELSE DaysBeforeMonth(y, m - 1) + DaysInMonth(y, m - 1)

\* date.toordinal(): 0001-01-01 is day 1
Ordinal(y, m, d) == DaysBeforeYear(y) + DaysBeforeMonth(y, m) + d

MaxOrdinal == Ordinal(9999, 12, 31)

RECURSIVE YearOf(_, _)
YearOf(n, y) == IF DaysBeforeYear(y + 1) < n THEN YearOf(n, y + 1) ELSE y

RECURSIVE MonthOf(_, _, _)
MonthOf(n, y, m) == IF DaysBeforeMonth(y, m) + DaysInMonth(y, m) < n THEN MonthOf(n, y, m + 1) ELSE m

\* date.fromordinal()
FromOrdinal(n) ==
  LET y == YearOf(n, ((n - 1) \div 366) + 1)
      r == n - DaysBeforeYear(y)
      m == MonthOf(r, y, 1)
  IN  [y |-> y, m |-> m, d |-> r - DaysBeforeMonth(y, m)]

\* strptime's pattern of %m: 1[0-2] | 0[1-9] | [1-9]
MonthPattern(t) ==
  \/ Len(t) = 2 /\ Char(t, 1) = "1" /\ Char(t, 2) \in {"0", "1", "2"}
  \/ Len(t) = 2 /\ Char(t, 1) = "0" /\ IsDigit(Char(t, 2)) /\ Char(t, 2) # "0"
  \/ Len(t) = 1 /\ IsDigit(t) /\ t # "0"

\* strptime's pattern of %d: 3[0-1] | [1-2]\d | 0[1-9] | [1-9] | " "[1-9]
DayPattern(t) ==
  \/ Len(t) = 2 /\ Char(t, 1) = "3" /\ Char(t, 2) \in {"0", "1"}
  \/ Len(t) = 2 /\ Char(t, 1) \in {"1", "2"} /\ IsDigit(Char(t, 2))
  \/ Len(t) = 2 /\ Char(t, 1) \in {"0", " "} /\ IsDigit(Char(t, 2)) /\ Char(t, 2) # "0"
  \/ Len(t) = 1 /\ IsDigit(t) /\ t # "0"

\* the length of the day the pattern takes at position i, two characters
\* before one; 0 if none
DayTaken(s, i) ==
  IF i + 1 <= Len(s) /\ DayPattern(SubSeq(s, i, i + 1)) THEN 2
  ELSE IF i <= Len(s) /\ DayPattern(Char(s, i)) THEN 1
  ELSE 0

\* datetime.strptime(s, "%Y%m%d"): four digits of year, then the first month
\* alternative after which a day matches; text left over after the match
\* and an impossible date are ValueErrors
strptime(s) ==
  LET bad == [ok |-> FALSE, y |-> 0, m |-> 0, d |-> 0]
      ml == IF Len(s) >= 6 /\ MonthPattern(SubSeq(s, 5, 6)) /\ DayTaken(s, 7) > 0 THEN 2
            ELSE IF Len(s) >= 5 /\ MonthPattern(Char(s, 5)) /\ DayTaken(s, 6) > 0 THEN 1
            ELSE 0
      dl == DayTaken(s, 5 + ml)
      y == ToInt(SubSeq(s, 1, 4))
      m == ToInt(SubSeq(s, 5, 4 + ml))
      d == ToInt(strip(SubSeq(s, 5 + ml, 4 + ml + dl)))
  IN  IF Len(s) < 4 \/ ~AllDigits(SubSeq(s, 1, 4)) THEN bad
      ELSE IF ml = 0 THEN bad
      ELSE IF 4 + ml + dl # Len(s) THEN bad
      ELSE IF ~IsCalendarDate(y, m, d) THEN bad
      ELSE [ok |-> TRUE, y |-> y, m |-> m, d |-> d]

\* valid_date: parseable and not before 1900-01-01
valid_date(date_str) == strptime(date_str).ok /\ strptime(date_str).y >= 1900

\* strftime("%Y%m%d"): the C library pads the year to four digits, or
\* prints it as it is
strftime(t, pad) ==
  (IF pad THEN zfill(ToString(t.y), 4) ELSE ToString(t.y))
    \o zfill(ToString(t.m), 2) \o zfill(ToString(t.d), 2)

\* int(hashlib.md5(patient_id.encode()).hexdigest(), 16) % 3652
MD5Mod3652 ==
  [p \in {"P0", "P1", "P2", "P3", "12345"} |->
     CASE p = "P0" -> 2914
       [] p = "P1" -> 1299
       [] p = "P2" -> 27
       [] p = "P3" -> 3118
       [] p = "12345" -> 263]

RAISED == "<raised>"

\* _hash_date: (days_to_increment, formatted_date); the addition raises
\* OverflowError past 9999-12-31
hash_date(date, patient_id, pad) ==
  IF ~valid_date(date) \/ Len(patient_id) = 0 THEN [n |-> 0, s |-> DEFAULT_ANON_DATE]
  ELSE LET days_to_increment == MD5Mod3652[patient_id]
           t == strptime(date)
           n == Ordinal(t.y, t.m, t.d) + days_to_increment
       IN  IF n > MaxOrdinal THEN [n |-> 0, s |-> RAISED]
           ELSE [n |-> days_to_increment, s |-> strftime(FromOrdinal(n), pad)]

\* str.split(","): the parts of s between its commas
RECURSIVE split(_, _)
split(s, cur) ==
  IF s = "" THEN <<cur>>
  ELSE IF Char(s, 1) = "," THEN <<cur>> \o split(SubSeq(s, 2, Len(s)), "")
  ELSE split(SubSeq(s, 2, Len(s)), cur \o Char(s, 1))

UpperCase == "ABCDEFGHIJKLMNOPQRSTUVWXYZ"
LowerCase == "abcdefghijklmnopqrstuvwxyz"

\* str.lower()
RECURSIVE lower(_)
lower(s) ==
  IF s = "" THEN s
  ELSE LET c == Char(s, 1)
           k == {i \in 1..26 : Char(UpperCase, i) = c}
       IN  (IF k = {} THEN c ELSE Char(LowerCase, CHOOSE i \in k : TRUE))
             \o lower(SubSeq(s, 2, Len(s)))

startswith(s, t) == Len(s) >= Len(t) /\ SubSeq(s, 1, Len(t)) = t

endswith(s, t) == Len(s) >= Len(t) /\ SubSeq(s, Len(s) - Len(t) + 1, Len(s)) = t

\* int(s) of a part: an optional sign and decimal digits, blanks around
\* them ignored; anything else is a ValueError
int_ok(s) ==
  LET t == strip(s)
      u == IF t # "" /\ Char(t, 1) \in {"+", "-"} THEN SubSeq(t, 2, Len(t)) ELSE t
  IN  u # "" /\ AllDigits(u)

int(s) ==
  LET t == strip(s)
  IN  IF Char(t, 1) = "-" THEN 0 - ToInt(SubSeq(t, 2, Len(t)))
      ELSE IF Char(t, 1) = "+" THEN ToInt(SubSeq(t, 2, Len(t)))
      ELSE ToInt(t)

\* _modify_date: (delta_days, modified_date)
modify_date(date, operation, pad) ==
  LET default == [n |-> 0, s |-> DEFAULT_ANON_DATE]
      op1 == strip(operation)
      op2 == IF startswith(op1, "@modifydate(") /\ endswith(op1, ")")
               THEN strip(SubSeq(op1, Len("@modifydate(") + 1, Len(op1) - 1))
               ELSE op1
      split_parts == split(op2, "")
      stripped == [i \in 1..Len(split_parts) |-> strip(split_parts[i])]
      parts == IF Len(stripped) = 3 THEN <<"this">> \o stripped ELSE stripped
      original_date == strptime(date)
      Component(str, source) == IF str = "*" THEN source ELSE int(str)
      year == Component(parts[2], original_date.y)
      month == Component(parts[3], original_date.m)
      day == Component(parts[4], original_date.d)
  IN  IF ~valid_date(date) THEN default
      ELSE IF Len(parts) # 4 \/ lower(parts[1]) \notin {"this", "*"} THEN default
      ELSE IF \E i \in 2..4 : parts[i] # "*" /\ ~int_ok(parts[i]) THEN default
      ELSE IF ~IsCalendarDate(year, month, day) THEN default
      ELSE [n |-> Ordinal(year, month, day)
                    - Ordinal(original_date.y, original_date.m, original_date.d),
            s |-> strftime([y |-> year, m |-> month, d |-> day], pad)]

\* str.rstrip() of blanks
RECURSIVE rstrip(_)
rstrip(s) ==
  IF s # "" /\ Char(s, Len(s)) = " " THEN rstrip(SubSeq(s, 1, Len(s) - 1)) ELSE s

\* the position of the first "." of s, or 0
RECURSIVE find_dot(_, _)
find_dot(s, i) ==
  IF i > Len(s) THEN 0 ELSE IF Char(s, i) = "." THEN i ELSE find_dot(s, i + 1)

\* valid_time: HH, HHMM, HHMMSS or HHMMSS.F{1,6} after the trailing blanks,
\* hours to 23, minutes to 59, seconds to 59 or 60
valid_time(time_str) ==
  LET t == rstrip(time_str)
      dot == find_dot(t, 1)
      base == IF dot = 0 THEN t ELSE SubSeq(t, 1, dot - 1)
      frac == IF dot = 0 THEN "" ELSE SubSeq(t, dot + 1, Len(t))
  IN  /\ time_str # ""
      /\ Len(base) \in {2, 4, 6}
      /\ AllDigits(base)
      /\ ToInt(SubSeq(base, 1, 2)) <= 23
      /\ Len(base) >= 4 => ToInt(SubSeq(base, 3, 4)) <= 59
      /\ Len(base) = 6 => (ToInt(SubSeq(base, 5, 6)) <= 59 \/ SubSeq(base, 5, 6) = "60")
      /\ dot # 0 => /\ Len(base) = 6
                    /\ Len(frac) \in 1..6
                    /\ AllDigits(frac)

\* int.from_bytes(md5(patient_id).digest()[:8], "big") % (86400 * 10**6),
\* as whole seconds and microseconds
MD5Offset ==
  [p \in {"P1", "P2", "Patient-ID"} |->
     CASE p = "P1" -> [sec |-> 73016, us |-> 820680]
       [] p = "P2" -> [sec |-> 14228, us |-> 253624]
       [] p = "Patient-ID" -> [sec |-> 38878, us |-> 987401]]

\* the inputs whose anonymized fraction is an exact half of a microsecond
\* and for which the float product (anon_seconds % 1) * 1_000_000 rounds to
\* the upper microsecond
HalfRoundsUp ==
  { <<"000001.179317", "P1">>, <<"000001.179319", "P1">>, <<"000001.179321", "P1">>,
    <<"213806.501365", "P1">>, <<"000000.000001", "P2">>, <<"000001.179317", "P2">>,
    <<"000001.179319", "P2">>, <<"000001.179321", "P2">>, <<"213806.501365", "P2">>,
    <<"213806.501367", "P2">>, <<"235959.999999", "P2">>, <<"000000.12", "Patient-ID">>,
    <<"000000.3", "Patient-ID">>, <<"000001.179316", "Patient-ID">> }

\* str.ljust(width, "0")
RECURSIVE ljust0(_, _)
ljust0(s, width) == IF Len(s) >= width THEN s ELSE ljust0(s \o "0", width)

\* _hash_time: (whole seconds of the offset, anonymized time string);
\* seconds and microseconds are kept apart, (sum of both) / 2 is the
\* anonymized second of the day; the trailing blanks valid_time allows stay
\* in the parts, and int() of a part that is blank or has a blank inside
\* raises ValueError
hash_time(time_str, patient_id) ==
  IF ~valid_time(time_str) \/ patient_id = "" THEN [n |-> 0, s |-> DEFAULT_ANON_TIME]
  ELSE LET dot == find_dot(time_str, 1)
           base == IF dot = 0 THEN time_str ELSE SubSeq(time_str, 1, dot - 1)
           frac_digits == IF dot = 0 THEN "" ELSE SubSeq(time_str, dot + 1, Len(time_str))
           hh == ToInt(SubSeq(base, 1, 2))
           mm == IF Len(base) >= 4 THEN int(SubSeq(base, 3, 4)) ELSE 0
           ss0 == IF Len(base) >= 6 THEN int(SubSeq(base, 5, 6)) ELSE 0
           ss == IF ss0 = 60 THEN 59 ELSE ss0
           original_frac_precision == Len(frac_digits)
           frac_full == ljust0(frac_digits, 6)
           frac_us == ToInt(strip(frac_full))
           offset == MD5Offset[patient_id]
           us_sum == frac_us + offset.us
           summed_sec == hh * 3600 + mm * 60 + ss + offset.sec + (us_sum \div 1000000)
           summed_us == us_sum % 1000000
           anon_sec == summed_sec \div 2
           half_us == (summed_sec % 2) * 1000000 + summed_us
           anon_frac == IF half_us % 2 = 1 /\ <<time_str, patient_id>> \in HalfRoundsUp
                          THEN (half_us \div 2) + 1 ELSE half_us \div 2
           hms == zfill(ToString(anon_sec \div 3600), 2)
                    \o zfill(ToString((anon_sec % 3600) \div 60), 2)
                    \o zfill(ToString(anon_sec % 60), 2)
           frac_str == zfill(ToString(anon_frac), 6)
           taken == IF original_frac_precision < Len(frac_str)
                      THEN original_frac_precision ELSE Len(frac_str)
       IN  IF \/ Len(base) >= 4 /\ ~int_ok(SubSeq(base, 3, 4))
              \/ Len(base) >= 6 /\ ~int_ok(SubSeq(base, 5, 6))
              \/ ~int_ok(frac_full)
             THEN [n |-> 0, s |-> RAISED]
           ELSE IF original_frac_precision > 0
             THEN [n |-> offset.sec, s |-> hms \o "." \o SubSeq(frac_str, 1, taken)]
             ELSE [n |-> offset.sec, s |-> hms]

\* ------------------------------------------------------ pseudo-key files
known_originals == {"original", "original id", "original patient id", "id"}

known_anons ==
  {"anon", "anonymous", "anonymized", "anonymous id", "anonymized id",
   "anonymous patient id", "anonymized patient id"}

\* next(i for i, col in enumerate(lowered) if col in known), counted from
\* 1, with 0 for the default -1
RECURSIVE first_index(_, _, _)
first_index(lowered, known, i) ==
  IF i > Len(lowered) THEN 0
  ELSE IF lowered[i] \in known THEN i
  ELSE first_index(lowered, known, i + 1)

\* _detect_header_indices: the columns of the original and the anonymized
\* id, found is FALSE for None
detect_header_indices(header) ==
  LET lowered == [i \in DOMAIN header |-> strip(lower(header[i]))]
      original_index == first_index(lowered, known_originals, 1)
      anon_index == first_index(lowered, known_anons, 1)
  IN  [found |-> original_index # 0 /\ anon_index # 0,
       orig_idx |-> original_index, anon_idx |-> anon_index]

\* the loop over the data rows: a row too short for both columns is
\* skipped; an id seen in an earlier accepted row raises ValueError; a row
\* is accepted, and its ids are remembered, when both ids are non-empty
RECURSIVE read_rows(_, _, _, _, _, _)
read_rows(rows, orig_idx, anon_idx, mapping, seen_orig, seen_anon) ==
  IF rows = <<>> THEN [error |-> "", mapping |-> mapping]
  ELSE LET row == Head(rows)
           longest == IF orig_idx > anon_idx THEN orig_idx ELSE anon_idx
       IN  IF Len(row) < longest
             THEN read_rows(Tail(rows), orig_idx, anon_idx, mapping, seen_orig, seen_anon)
           ELSE LET orig == strip(row[orig_idx])
                    anon == strip(row[anon_idx])
                IN  IF orig \in seen_orig
                      THEN [error |-> "Duplicate original patient ID found", mapping |-> mapping]
                    ELSE IF anon \in seen_anon
                      THEN [error |-> "Duplicate anonymized patient ID found", mapping |-> mapping]
                    ELSE IF orig # "" /\ anon # ""
                      THEN read_rows(Tail(rows), orig_idx, anon_idx, Put(mapping, orig, anon),
                                     seen_orig \cup {orig}, seen_anon \cup {anon})
                    ELSE read_rows(Tail(rows), orig_idx, anon_idx, mapping, seen_orig, seen_anon)

\* _read_pseudo_mapping_csv: error is the text of the ValueError raised
read_pseudo_mapping_csv(f) ==
  IF f.header = <<>> THEN [error |-> "CSV file is empty", mapping |-> EmptyMap]
  ELSE LET indices == detect_header_indices(f.header)
       IN  IF ~indices.found
             THEN [error |-> "CSV file must contain recognizable column names", mapping |-> EmptyMap]
           ELSE read_rows(f.rows, indices.orig_idx, indices.anon_idx, EmptyMap, {}, {})

\* _read_pseudo_mapping_xlsx: a cell without a value reads as ""
read_pseudo_mapping_xlsx(f) ==
  IF f.header = <<>> THEN [error |-> "XLSX file is empty", mapping |-> EmptyMap]
  ELSE LET header == [i \in DOMAIN f.header |-> strip(f.header[i])]
           indices == detect_header_indices(header)
       IN  IF ~indices.found
             THEN [error |-> "XLSX file must contain recognizable column names", mapping |-> EmptyMap]
           ELSE read_rows(f.rows, indices.orig_idx, indices.anon_idx, EmptyMap, {}, {})

\* load_pseudo_keys: (mapping, messages); mapping stays {} unless a reader
\* returned, every exception of a reader becomes a message
load_pseudo_keys(f) ==
  IF f.path = NoneVal
    THEN [mapping |-> EmptyMap, messages |-> <<"No anonymization key file specified">>]
  ELSE IF ~f.exists
    THEN [mapping |-> EmptyMap, messages |-> <<"Pseudo Anonymization Key File not found">>]
  ELSE IF ~f.readable /\ (endswith(lower(f.path), ".csv") \/ endswith(lower(f.path), ".xlsx"))
    THEN [mapping |-> EmptyMap, messages |-> <<"Unexpected error while loading pseudo key file">>]
  ELSE IF endswith(lower(f.path), ".csv") \/ endswith(lower(f.path), ".xlsx")
    THEN LET read == IF endswith(lower(f.path), ".csv") THEN read_pseudo_mapping_csv(f)
                     ELSE read_pseudo_mapping_xlsx(f)
         IN  IF read.error # "" THEN [mapping |-> EmptyMap, messages |-> <<read.error>>]
             ELSE [mapping |-> read.mapping, messages |-> <<>>]
  ELSE [mapping |-> EmptyMap, messages |-> <<"Unsupported file format">>]

\* ------------------------------------------------------------ the script
\* elements of a dataset in ascending tag order, the order of Dataset.walk:
\* (0008,0018) (0008,0020) (0008,0050) (0010,0010) (0010,0020) (0010,0030)
\* (0020,000D) (0020,000E) (0020,0052)
Elements == <<"sop", "studydate", "acc", "name", "pid", "birthdate", "study", "series", "frame">>

Contains(s, t) == \E i \in 1..(Len(s) - Len(t) + 1) : SubSeq(s, i, i + Len(t) - 1) = t

\* str.isalpha() of an ASCII character
IsAlpha(c) ==
  \E k \in 1..26 : Char(UpperCase, k) = c \/ Char(LowerCase, k) = c

\* "".join(filter(str.isdigit, s))
RECURSIVE filter_isdigit(_)
filter_isdigit(s) ==
  IF s = "" THEN ""
  ELSE (IF IsDigit(Char(s, 1)) THEN Char(s, 1) ELSE "") \o filter_isdigit(SubSeq(s, 2, Len(s)))

\* "".join(filter(str.isalpha, s))
RECURSIVE filter_isalpha(_)
filter_isalpha(s) ==
  IF s = "" THEN ""
  ELSE (IF IsAlpha(Char(s, 1)) THEN Char(s, 1) ELSE "") \o filter_isalpha(SubSeq(s, 2, Len(s)))

\* re.search(r"\d", s): the first digit of s, or None
RECURSIVE extract_first_digit(_)
extract_first_digit(s) ==
  IF s = "" THEN NoneVal
  ELSE IF IsDigit(Char(s, 1)) THEN Char(s, 1)
  ELSE extract_first_digit(SubSeq(s, 2, Len(s)))

\* round(n / width) of Python 3: the nearest integer, the even one of the
\* two when n / width lies halfway
round_quotient(n, width) ==
  LET q == n \div width
      r == n % width
  IN  IF 2 * r < width THEN q
      ELSE IF 2 * r > width THEN q + 1
      ELSE IF q % 2 = 0 THEN q ELSE q + 1

\* _round_age: float() of no digits raises ValueError, which is caught and
\* gives the stripped input back; the division by a width of 0 raises
\* ZeroDivisionError, which is not caught
round_age(age_string, width) ==
  IF age_string = NoneVal THEN ""
  ELSE LET stripped == strip(age_string)
           digits == filter_isdigit(stripped)
       IN  IF stripped = "" THEN ""
           ELSE IF digits = "" THEN stripped
           ELSE IF width = 0 THEN RAISED
           ELSE LET age == round_quotient(ToInt(digits), width) * width
                    res == ToString(age) \o filter_isalpha(stripped)
                IN  IF Len(res) % 2 # 0 THEN "0" \o res ELSE res

\* s.replace(t, "")
RECURSIVE remove_all(_, _)
remove_all(s, t) ==
  IF Len(s) < Len(t) THEN s
  ELSE IF SubSeq(s, 1, Len(t)) = t THEN remove_all(SubSeq(s, Len(t) + 1, Len(s)), t)
  ELSE Char(s, 1) \o remove_all(SubSeq(s, 2, Len(s)), t)

\* a character of \w
IsWordChar(c) == IsAlpha(c) \/ IsDigit(c) \/ c = "_"

\* _parse_paramkey_from: the lowered key of "@param(@KEY)", or None
parse_paramkey_from(operation) ==
  LET n == Len(operation)
      key == SubSeq(operation, 9, n - 1)
  IN  IF /\ n >= 10
         /\ SubSeq(operation, 1, 8) = "@param(@"
         /\ Char(operation, n) = ")"
         /\ \A i \in 1..Len(key) : IsWordChar(Char(key, i))
        THEN lower(key)
        ELSE NoneVal

\* model._script_params of the project's script
script_params == Put(EmptyMap, "projectname", "Project")

\* _get_script_param for a tag of a text VR: the parameter, or the empty
\* value of the VR
get_script_param(operation) ==
  LET param_key == parse_paramkey_from(operation)
  IN  IF param_key = NoneVal THEN ""
      ELSE IF param_key \notin DOMAIN script_params THEN ""
      ELSE script_params[param_key]

\* an elif chain that asks for @round before @hashtime
Dispatch_round_before_hashtime(operation) ==
  IF operation = "" \/ operation = "@keep" THEN "keep"
  ELSE IF Contains(operation, "@empty") THEN "@empty"
  ELSE IF Contains(operation, "uid") THEN "uid"
  ELSE IF Contains(operation, "acc") THEN "acc"
  ELSE IF Contains(operation, "@hashdate") THEN "@hashdate"
  ELSE IF Contains(operation, "@modifydate") THEN "@modifydate"
  ELSE IF Contains(operation, "@round") THEN "@round"
  ELSE IF Contains(operation, "@hashtime") THEN "@hashtime"
  ELSE IF Contains(operation, "@param") THEN "@param"
  ELSE "keep"

\* the branch of the if/elif chain an operation string selects
Dispatch(operation) ==
  IF operation = "" \/ operation = "@keep" THEN "keep"
  ELSE IF Contains(operation, "@empty") THEN "@empty"
  ELSE IF Contains(operation, "uid") THEN "uid"
  ELSE IF Contains(operation, "acc") THEN "acc"
  ELSE IF Contains(operation, "@hashdate") THEN "@hashdate"
  ELSE IF Contains(operation, "@modifydate") THEN "@modifydate"
  ELSE IF Contains(operation, "@hashtime") THEN "@hashtime"
  ELSE IF Contains(operation, "@round") THEN "@round"
  ELSE IF Contains(operation, "@param") THEN "@param"
  ELSE "keep"

\* the branches in the order of the elif chain; 0 stands for no branch
Branches == <<"@empty", "uid", "acc", "@hashdate", "@modifydate", "@hashtime", "@round", "@param">>

BranchIndex(branch) ==
  IF branch = "keep" THEN 0 ELSE CHOOSE k \in 1..Len(Branches) : Branches[k] = branch

\* the body of a branch of the elif chain: the branch that assigned the
\* value (0 when the value is left as it is), the value, and the model after
\* the lookups
apply_branch(m, patient_id, branch, n, operation, value) ==
  CASE branch = "keep" -> [n |-> 0, s |-> value, m |-> m]
    [] branch = "@empty" -> [n |-> n, s |-> "", m |-> m]
    [] branch = "uid" ->
         IF get_anon_uid(m, value) \in {NoneVal, ""}
           THEN [n |-> n, s |-> AnonUID(m.next_uid_counter + 1), m |-> get_next_anon_uid(m, value)]
           ELSE [n |-> n, s |-> get_anon_uid(m, value), m |-> m]
    [] branch = "acc" ->
         IF get_anon_acc_no(m, value) \in {NoneVal, ""}
           THEN [n |-> n, s |-> AnonAcc(m.next_accession_counter + 1), m |-> get_next_anon_acc_no(m, value)]
           ELSE [n |-> n, s |-> get_anon_acc_no(m, value), m |-> m]
    [] branch = "@hashdate" -> [n |-> n, s |-> hash_date(value, patient_id, TRUE).s, m |-> m]
    [] branch = "@modifydate" -> [n |-> n, s |-> modify_date(value, operation, TRUE).s, m |-> m]
    [] branch = "@hashtime" -> [n |-> n, s |-> hash_time(value, patient_id).s, m |-> m]
    [] branch = "@round" ->
         IF value = NoneVal \/ extract_first_digit(remove_all(operation, "@round")) = NoneVal
           THEN [n |-> 0, s |-> value, m |-> m]
           ELSE [n |-> n, m |-> m,
                 s |-> round_age(value, ToInt(extract_first_digit(remove_all(operation, "@round"))))]
    [] branch = "@param" -> [n |-> n, s |-> get_script_param(operation), m |-> m]

\* _anonymize_element on an element of a tag in tag_keep
anonymize_element(m, patient_id, operation, value) ==
  apply_branch(m, patient_id, Dispatch(operation), BranchIndex(Dispatch(operation)), operation, value)

\* tag_keep of a script that keeps the patient id and hashes the identifiers
DefaultScript ==
  [t \in {"sop", "acc", "name", "pid", "study", "series", "frame"} |->
     CASE t = "acc" -> "@hashacc"
       [] t = "name" -> "@empty"
       [] t = "pid" -> "@keep"
       [] OTHER -> "@hashuid"]

\* tag_keep of the custom scripts of the tests: only the UIDs are listed
CustomScript == [t \in {"sop", "study", "series"} |-> "@hashuid"]

\* tag_keep of a script that empties the patient id
EmptyPidScript == [DefaultScript EXCEPT !["pid"] = "@empty"]

Scripts == {DefaultScript, CustomScript, EmptyPidScript}

\* ---------------------------------------------------------- the datasets
\* seq is a sequence element, the tuple of its items (none when the element
\* is absent); deid stands for the elements anonymize adds after the walk
Dataset(sop, pid, name, acc, pixel) ==
  [sop |-> sop, acc |-> acc, name |-> name, pid |-> pid,
   study |-> "1.7", series |-> "1.7.1", frame |-> "1.8", pixel |-> pixel,
   sopclass |-> "1.5.1", studydate |-> ABSENT, birthdate |-> ABSENT,
   studytime |-> ABSENT, birthtime |-> ABSENT, seq |-> <<>>, deid |-> ABSENT]

NoDataset == Dataset(ABSENT, ABSENT, ABSENT, ABSENT, FALSE)

\* the datasets a producer may submit as the k-th item: instances of one
\* study and series with their own SOP instance UID: one of a named patient
\* (two submissions per patient), one without PatientID, and one that lacks
\* the SOPInstanceUID attribute
SourceDatasets(k) ==
  LET sop == "1.9." \o ToString(k)
  IN  { Dataset(sop, "P" \o ToString((k + 1) \div 2), "DOE", "1", TRUE),
        Dataset(sop, ABSENT, "ROE", "A7", FALSE),
        Dataset(ABSENT, "", "", "A7", FALSE) }

\* ------------------------------------------------------------- the state
VARIABLES
  model,            \* the in-memory anonymizer model
  disk,             \* the model as last written to the model file
  script,           \* model._tag_keep
  remove_pixel_phi, \* project_model.remove_pixel_phi
  ctor_pc,          \* position of __init__
  active,           \* _active
  flag,             \* _model_change_flag
  event,            \* _autosave_event
  ds_Q,             \* _anon_ds_Q: ids of queued datasets, 0 is the sentinel
  ds_unfinished,    \* unfinished tasks of _anon_ds_Q
  px_Q,             \* _anon_px_Q: stored paths, NoneVal is the sentinel
  px_unfinished,    \* unfinished tasks of _anon_px_Q
  wk,               \* the dataset worker threads
  px,               \* the pixel worker thread
  auto_pc,          \* position of the autosave thread
  stop_pc,          \* position of stop()
  stop_sent,        \* sentinels stop() has put so far
  images,           \* files of the images tree
  quarantine,       \* files of the quarantine tree
  src,              \* the source datasets submitted, by id
  outcome,          \* what became of each submitted dataset
  issued,           \* every (map, PHI value, anon value) ever minted
  rollbacks,        \* every remove_uid of a failed anonymize, with the counter it saw
  redacted          \* paths handed to remove_pixel_phi

VARIABLES
  fs,               \* the model file, its .bak and its .tmp
  saver,            \* position of a save() whose steps a crash may separate
  booted,           \* what the last start-up found on disk and what it did
  crashes,          \* process crashes so far
  fl,               \* the file anonymize_file is working on
  captured,         \* every (PatientID, StudyDate, date_delta) anonymize has handed to capture_phi
  call,             \* the last call of a date or time derivation
  result,           \* what that call returned
  prev,             \* the call before it, with its result
  keyfile,          \* the pseudo-key file load_pseudo_keys was called on
  keys,             \* what load_pseudo_keys returned
  pseudo            \* pseudo_key_config and the model's pseudo_key_map

vars == <<model, disk, script, remove_pixel_phi, ctor_pc, active, flag, event,
          ds_Q, ds_unfinished, px_Q, px_unfinished, wk, px, auto_pc, stop_pc,
          stop_sent, images, quarantine, src, outcome, issued, rollbacks, redacted,
          fs, saver, booted, crashes, fl, captured, call, result, prev,
          keyfile, keys, pseudo>>

persist == <<fs, saver, booted, crashes>>
caller == <<fl, captured>>
derive == <<call, result, prev, keyfile, keys>>

config == <<script, remove_pixel_phi, pseudo>>
queues == <<ds_Q, ds_unfinished, px_Q, px_unfinished>>
files == <<images, quarantine>>
autosave == <<disk, flag, event, auto_pc>>
stopper == <<stop_pc, stop_sent, active, ctor_pc>>

IdleWorker == [pc |-> "get", id |-> 0, ds |-> NoDataset, i |-> 0,
               phi_sop |-> ABSENT, qkind |-> ""]

IdleCaller == [IdleWorker EXCEPT !.pc = "idle"]

\* ---------------------------------------------------- the model's files
MODEL_VERSION == 2

NoFile == [kind |-> "absent", version |-> 0, m |-> NewModel]

\* a pickled model with its _version
ModelFile(m, v) == [kind |-> "model", version |-> v, m |-> m]

\* a file open() refuses, a file pickle.loads rejects, a pickled object
\* without _version
UnreadableFile == [kind |-> "unreadable", version |-> 0, m |-> NewModel]
CorruptFile == [kind |-> "corrupt", version |-> 0, m |-> NewModel]
NoVersionFile(m) == [kind |-> "noversion", version |-> 0, m |-> m]

IdleSaver == [pc |-> "idle", old |-> NoFile, new |-> NoFile]

NotBooted == [outcome |-> "none", m |-> NewModel, path |-> NoFile, bak |-> NoFile,
              in_save |-> FALSE, old |-> NoFile, new |-> NoFile]

\* save(path): serialize to path.tmp, rotate path to path.bak, rename
\* path.tmp to path
save_write_tmp(f, m) == [f EXCEPT !.tmp = ModelFile(m, MODEL_VERSION)]

save_rotate(f) ==
  IF f.path.kind = "absent" THEN f ELSE [f EXCEPT !.bak = f.path, !.path = NoFile]

save_rename(f) == [f EXCEPT !.path = f.tmp, !.tmp = NoFile]

save(f, m) == save_rename(save_rotate(save_write_tmp(f, m)))

\* open, read, pickle.loads and hasattr(file_model, "_version") all succeed
Usable(file) == file.kind = "model"

\* a load_model that starts from a default model when there is no backup
load_model_defaulting(f) ==
  IF Usable(f.path) THEN [ok |-> TRUE, file |-> f.path]
  ELSE IF f.bak.kind # "absent"
    THEN [ok |-> Usable(f.bak), file |-> f.bak]
    ELSE [ok |-> TRUE, file |-> ModelFile(NewModel, MODEL_VERSION)]

\* load_model: the model file, else the backup file if it exists, else
\* RuntimeError
load_model(f) ==
  IF Usable(f.path) THEN [ok |-> TRUE, file |-> f.path]
  ELSE IF f.bak.kind # "absent"
    THEN [ok |-> Usable(f.bak), file |-> f.bak]
    ELSE [ok |-> FALSE, file |-> NoFile]

\* ------------------------------------------- source files and derivations
NoSourceFile == [name |-> "", read |-> "", ds |-> NoDataset, n |-> 0]

NoCall == [fn |-> "", a |-> "", b |-> "", pad |-> FALSE]

\* no pseudo-key file, nothing loaded
NoKeyFile == [path |-> "", exists |-> FALSE, readable |-> FALSE, header |-> <<>>, rows |-> <<>>]
NoKeys == [mapping |-> EmptyMap, messages |-> <<>>]
NoResult == [n |-> 0, s |-> ""]

\* a new model in memory, empty queues, idle threads, empty trees
InitRuntime ==
  /\ model = NewModel
  /\ disk = NewModel
  /\ flag = FALSE
  /\ event = FALSE
  /\ ds_Q = <<>>
  /\ ds_unfinished = 0
  /\ px_Q = <<>>
  /\ px_unfinished = 0
  /\ wk = [w \in Threads |-> IF w = Caller THEN IdleCaller ELSE IdleWorker]
  /\ px = [pc |-> IF remove_pixel_phi THEN "get" ELSE "off", path |-> NoneVal]
  /\ stop_pc = "idle"
  /\ stop_sent = 0
  /\ images = {}
  /\ quarantine = {}
  /\ src = <<>>
  /\ outcome = <<>>
  /\ issued = {}
  /\ rollbacks = {}
  /\ redacted = {}

\* a project directory without a model file
InitNoModelFile ==
  /\ fs = [path |-> NoFile, bak |-> NoFile, tmp |-> NoFile]
  /\ saver = IdleSaver
  /\ booted = NotBooted
  /\ crashes = 0

\* no file being anonymized, no derivation called
InitNoCalls ==
  /\ fl = NoSourceFile
  /\ captured = {}
  /\ call = NoCall
  /\ result = NoResult
  /\ prev = [call |-> NoCall, result |-> NoResult]
  /\ keyfile = NoKeyFile
  /\ keys = NoKeys

\* pseudo-key lookup is not enabled
InitNoPseudoKeys == pseudo = PseudoKeysOff

\* what every start in a new project directory has in common
InitCommon == InitRuntime /\ InitNoModelFile /\ InitNoCalls /\ InitNoPseudoKeys

\* the state when __init__ has started the worker threads and the autosave
\* thread and has not yet set _active
Init ==
  /\ script \in Scripts
  /\ remove_pixel_phi \in BOOLEAN
  /\ ctor_pc = "activate"
  /\ active = FALSE
  /\ auto_pc = "loop"
  /\ InitCommon

\* a constructed controller whose autosave thread has read _active before
\* __init__ set it, for any script; the pixel worker is still loading
InitAnon ==
  /\ script \in Scripts
  /\ remove_pixel_phi = TRUE
  /\ ctor_pc = "done"
  /\ active = TRUE
  /\ auto_pc = "end"
  /\ InitCommon

\* the same controller with the script of the tests
InitPipe ==
  /\ script = CustomScript
  /\ remove_pixel_phi = TRUE
  /\ ctor_pc = "done"
  /\ active = TRUE
  /\ auto_pc = "end"
  /\ InitCommon

\* the controller at the start of its autosave thread, without pixel PHI
\* removal
InitSave ==
  /\ script = CustomScript
  /\ remove_pixel_phi = FALSE
  /\ ctor_pc = "activate"
  /\ active = FALSE
  /\ auto_pc = "loop"
  /\ InitCommon

\* the pairs a model operation has newly bound
NewPairs(m, m2) ==
  {<<"uid", p, m2.uid_map[p]>> : p \in {q \in DOMAIN m2.uid_map : Lookup(m.uid_map, q) # m2.uid_map[q]}}
  \cup {<<"acc", p, m2.acc_map[p]>> : p \in {q \in DOMAIN m2.acc_map : Lookup(m.acc_map, q) # m2.acc_map[q]}}
  \cup {<<"pid", p, m2.patient_id_map[p]>> :
          p \in {q \in DOMAIN m2.patient_id_map : Lookup(m.patient_id_map, q) # m2.patient_id_map[q]}}

\* ----------------------------------------------------------- __init__
CtorActivate ==
  /\ ctor_pc = "activate"
  /\ ctor_pc' = "done"
  /\ active' = TRUE
  /\ UNCHANGED <<persist, caller, derive, model, config, queues, wk, px, files, autosave, stop_pc, stop_sent,
                 src, outcome, issued, rollbacks, redacted>>

\* ------------------------------------------------- anonymize_dataset_ex
Enqueue ==
  /\ ctor_pc = "done"
  /\ stop_pc = "idle"
  /\ Len(src) < MaxDatasets
  /\ \E ds \in SourceDatasets(Len(src) + 1) :
       /\ src' = Append(src, ds)
       /\ ds_Q' = Append(ds_Q, Len(src) + 1)
  /\ ds_unfinished' = ds_unfinished + 1
  /\ outcome' = Append(outcome, "pending")
  /\ UNCHANGED <<persist, caller, derive, model, config, px_Q, px_unfinished, wk, px, files, autosave, stopper,
                 issued, rollbacks, redacted>>

\* ------------------------------------------------------ the element walk
\* elements handled without the model, from position i on, up to the next
\* present element whose operation needs a lookup: an element outside
\* tag_keep is deleted, @empty sets the empty string, @hashdate sets the
\* hashed date (position 0 stands for its OverflowError), @keep changes
\* nothing
RECURSIVE WalkLocal(_, _, _)
WalkLocal(tag_keep, ds, i) ==
  IF i > Len(Elements) THEN [ds |-> ds, i |-> i]
  ELSE LET tag == Elements[i] IN
    IF ds[tag] = ABSENT THEN WalkLocal(tag_keep, ds, i + 1)
    ELSE IF tag \notin DOMAIN tag_keep
      THEN WalkLocal(tag_keep, [ds EXCEPT ![tag] = ABSENT], i + 1)
    ELSE IF Dispatch(tag_keep[tag]) \in {"uid", "acc"} THEN [ds |-> ds, i |-> i]
    ELSE IF Dispatch(tag_keep[tag]) = "@empty"
      THEN WalkLocal(tag_keep, [ds EXCEPT ![tag] = ""], i + 1)
    ELSE IF Dispatch(tag_keep[tag]) = "@hashdate"
      THEN LET patient_id == IF ds.pid = ABSENT THEN "" ELSE ds.pid
               anon_date == hash_date(ds[tag], patient_id, TRUE).s
           IN  IF anon_date = RAISED THEN [ds |-> ds, i |-> 0]
               ELSE WalkLocal(tag_keep, [ds EXCEPT ![tag] = anon_date], i + 1)
    ELSE WalkLocal(tag_keep, ds, i + 1)

\* the worker after its element at position r.i - 1 is done
Walked(w, r) ==
  [wk[w] EXCEPT !.ds = r.ds, !.i = r.i,
                !.pc = IF r.i = 0 THEN "except"
                       ELSE IF r.i > Len(Elements) THEN "patient" ELSE "walk"]

\* local_storage_path: "{PatientID or default}/{study}/{series}/{sop}.dcm"
local_storage_path(ds) ==
  <<IF ds.pid = ABSENT THEN default_anon_pt_id ELSE ds.pid, ds.study, ds.series, ds.sop>>

\* ----------------------------------------- _anonymize_dataset_worker
Dequeue(w) ==
  /\ wk[w].pc = "get"
  /\ ds_Q # <<>>
  /\ ds_Q' = Tail(ds_Q)
  /\ wk' = [wk EXCEPT ![w] =
       IF Head(ds_Q) = 0 THEN [IdleWorker EXCEPT !.pc = "sentinel"]
       ELSE [IdleWorker EXCEPT !.pc = "begin", !.id = Head(ds_Q), !.ds = src[Head(ds_Q)]]]
  /\ UNCHANGED <<persist, caller, derive, model, config, ds_unfinished, px_Q, px_unfinished, px, files, autosave,
                 stopper, src, outcome, issued, rollbacks, redacted>>

SentinelDone(w) ==
  /\ wk[w].pc = "sentinel"
  /\ ds_unfinished' = ds_unfinished - 1
  /\ wk' = [wk EXCEPT ![w] = [IdleWorker EXCEPT !.pc = "end"]]
  /\ UNCHANGED <<persist, caller, derive, model, config, ds_Q, px_Q, px_unfinished, px, files, autosave, stopper,
                 src, outcome, issued, rollbacks, redacted>>

TaskDone(w) ==
  /\ wk[w].pc = "done"
  /\ ds_unfinished' = ds_unfinished - 1
  /\ wk' = [wk EXCEPT ![w] = IdleWorker]
  /\ UNCHANGED <<persist, caller, derive, model, config, ds_Q, px_Q, px_unfinished, px, files, autosave, stopper,
                 src, outcome, issued, rollbacks, redacted>>

\* ------------------------------------------------------------ anonymize
\* date_delta is hashed from StudyDate and PatientID when the dataset has
\* both, outside any try; capture_phi then runs under its own try: a
\* ValueError quarantines as INVALID_DICOM, any other exception as
\* CAPTURE_PHI_ERROR
SetChangeFlag(w) ==
  /\ wk[w].pc = "begin"
  /\ flag' = TRUE
  /\ wk' = [wk EXCEPT ![w].pc = "capture"]
  /\ UNCHANGED <<persist, caller, derive, model, config, queues, px, files, disk, event, auto_pc, stopper,
                 src, outcome, issued, rollbacks, redacted>>

CapturePhi(w) ==
  /\ wk[w].pc = "capture"
  /\ LET ds == wk[w].ds
         hashed == IF ds.studydate # ABSENT /\ ds.pid # ABSENT
                     THEN hash_date(ds.studydate, ds.pid, TRUE)
                     ELSE [n |-> 0, s |-> ""]
     IN  IF hashed.s = RAISED
           THEN /\ wk' = [wk EXCEPT ![w].pc = "dead"]
                /\ outcome' = [outcome EXCEPT ![wk[w].id] = "raised"]
                /\ UNCHANGED <<model, issued, captured>>
         ELSE IF capture_phi_raises(ds)
           THEN /\ wk' = [wk EXCEPT ![w].pc = "quarantine", ![w].qkind = "INVALID_DICOM"]
                /\ UNCHANGED <<model, issued, captured, outcome>>
         ELSE IF missing_mapping(ds, pseudo)
           THEN /\ wk' = [wk EXCEPT ![w].pc = "quarantine", ![w].qkind = "CAPTURE_PHI_ERROR"]
                /\ UNCHANGED <<model, issued, captured, outcome>>
         ELSE /\ model' = capture_phi_keys(model, ds, pseudo)
              /\ issued' = issued \cup NewPairs(model, model')
              /\ captured' = captured \cup
                   {[pid |-> IF ds.pid = ABSENT THEN "" ELSE ds.pid,
                     studydate |-> ds.studydate, date_delta |-> hashed.n,
                     logged |-> capture_phi_error(model, IF ds.pid = ABSENT THEN "" ELSE ds.pid, pseudo)]}
              /\ wk' = [wk EXCEPT ![w].pc = "transform", ![w].phi_sop = ds.sop]
              /\ UNCHANGED outcome
  /\ UNCHANGED <<persist, fl, derive, config, queues, px, files, autosave, stopper, src, rollbacks, redacted>>

\* remove_private_tags and _add_always_tags, then the walk up to its first
\* lookup; either call may raise
Transform(w) ==
  /\ wk[w].pc = "transform"
  /\ \/ wk' = [wk EXCEPT ![w] = Walked(w, WalkLocal(script, wk[w].ds, 1))]
     \/ wk' = [wk EXCEPT ![w].pc = "except"]
  /\ UNCHANGED <<persist, caller, derive, model, config, queues, px, files, autosave, stopper, src, outcome,
                 issued, rollbacks, redacted>>

\* get_anon_uid / get_anon_acc_no of the element's value
WalkLookup(w) ==
  /\ wk[w].pc = "walk"
  /\ LET tag == Elements[wk[w].i]
         value == wk[w].ds[tag]
         anon == IF Dispatch(script[tag]) = "uid" THEN get_anon_uid(model, value)
                 ELSE get_anon_acc_no(model, value)
     IN  IF anon = NoneVal \/ anon = ""
           THEN wk' = [wk EXCEPT ![w].pc = "mint"]
           ELSE wk' = [wk EXCEPT ![w] =
                  Walked(w, WalkLocal(script, [wk[w].ds EXCEPT ![tag] = anon], wk[w].i + 1))]
  /\ UNCHANGED <<persist, caller, derive, model, config, queues, px, files, autosave, stopper, src, outcome,
                 issued, rollbacks, redacted>>

\* get_next_anon_uid / get_next_anon_acc_no after a lookup that found nothing
WalkMint(w) ==
  /\ wk[w].pc = "mint"
  /\ LET tag == Elements[wk[w].i]
         value == wk[w].ds[tag]
         isuid == Dispatch(script[tag]) = "uid"
         m2 == IF isuid THEN get_next_anon_uid(model, value)
               ELSE get_next_anon_acc_no(model, value)
         anon == IF isuid THEN m2.uid_map[value] ELSE m2.acc_map[value]
     IN  /\ model' = m2
         /\ issued' = issued \cup NewPairs(model, m2)
         /\ wk' = [wk EXCEPT ![w] =
              Walked(w, WalkLocal(script, [wk[w].ds EXCEPT ![tag] = anon], wk[w].i + 1))]
  /\ UNCHANGED <<persist, caller, derive, config, queues, px, files, autosave, stopper, src, outcome, rollbacks, redacted>>

\* PatientID and PatientName from the PatientID the walk has left in ds,
\* then PatientIdentityRemoved, DeidentificationMethod, its code sequence
\* and the private block
SetPatient(w) ==
  /\ wk[w].pc = "patient"
  /\ LET phi == IF wk[w].ds.pid = ABSENT THEN "" ELSE wk[w].ds.pid
         found == get_anon_patient_id(model, phi)
         anon_ptid == IF found = NoneVal THEN default_anon_pt_id ELSE found
     IN  wk' = [wk EXCEPT ![w].ds.pid = anon_ptid, ![w].ds.name = anon_ptid,
                          ![w].ds.deid = "YES", ![w].pc = "store"]
  /\ UNCHANGED <<persist, caller, derive, model, config, queues, px, files, autosave, stopper, src, outcome,
                 issued, rollbacks, redacted>>

\* local_storage_path and save_as into the images tree
Store(w) ==
  /\ wk[w].pc = "store"
  /\ \/ /\ missing_attributes(wk[w].ds) = {}
        /\ images' = images \cup {[id |-> wk[w].id, path |-> local_storage_path(wk[w].ds), ds |-> wk[w].ds]}
        /\ outcome' = [outcome EXCEPT ![wk[w].id] = "stored"]
        /\ wk' = [wk EXCEPT ![w].pc =
             IF remove_pixel_phi /\ wk[w].ds.pixel THEN "px_put" ELSE "done"]
     \/ /\ wk' = [wk EXCEPT ![w].pc = "except"]
        /\ UNCHANGED <<persist, caller, derive, images, outcome>>
  /\ UNCHANGED <<persist, caller, derive, model, config, queues, px, quarantine, autosave, stopper, src,
                 issued, rollbacks, redacted>>

PxPut(w) ==
  /\ wk[w].pc = "px_put"
  /\ px_Q' = Append(px_Q, local_storage_path(wk[w].ds))
  /\ px_unfinished' = px_unfinished + 1
  /\ wk' = [wk EXCEPT ![w].pc = "done"]
  /\ UNCHANGED <<persist, caller, derive, model, config, ds_Q, ds_unfinished, px, files, autosave, stopper,
                 src, outcome, issued, rollbacks, redacted>>

\* an except clause that quarantines without model.remove_uid
Rollback_without_remove_uid(w) ==
  /\ wk[w].pc = "except"
  /\ rollbacks' = rollbacks \cup {[sop |-> wk[w].phi_sop, at |-> model.next_uid_counter]}
  /\ wk' = [wk EXCEPT ![w].pc = "quarantine", ![w].qkind = "STORAGE_ERROR"]
  /\ UNCHANGED <<persist, caller, derive, model, config, queues, px, files, autosave, stopper, src, outcome,
                 issued, redacted>>

\* the except clause: roll the instance UID back, then quarantine
Rollback(w) ==
  /\ wk[w].pc = "except"
  /\ model' = remove_uid(model, wk[w].phi_sop)
  /\ rollbacks' = rollbacks \cup {[sop |-> wk[w].phi_sop, at |-> model.next_uid_counter]}
  /\ wk' = [wk EXCEPT ![w].pc = "quarantine", ![w].qkind = "STORAGE_ERROR"]
  /\ UNCHANGED <<persist, caller, derive, config, queues, px, files, autosave, stopper, src, outcome,
                 issued, redacted>>

\* _write_dataset_to_quarantine: local_storage_path is called outside the
\* try and raises ValueError for a dataset without its required attributes;
\* a failing save_as is caught and logged
WriteDatasetToQuarantine(w) ==
  /\ wk[w].pc = "quarantine"
  /\ IF missing_attributes(wk[w].ds) # {}
       THEN /\ wk' = [wk EXCEPT ![w].pc = "dead"]
            /\ outcome' = [outcome EXCEPT ![wk[w].id] = "raised"]
            /\ UNCHANGED <<persist, caller, derive, model, quarantine>>
       ELSE \/ /\ quarantine' = quarantine \cup
                    {[id |-> wk[w].id, kind |-> wk[w].qkind, path |-> local_storage_path(wk[w].ds), ds |-> wk[w].ds]}
               /\ model' = increment_quarantined(model)
               /\ outcome' = [outcome EXCEPT ![wk[w].id] = wk[w].qkind]
               /\ wk' = [wk EXCEPT ![w].pc = "done"]
            \/ /\ outcome' = [outcome EXCEPT ![wk[w].id] = "lost"]
               /\ wk' = [wk EXCEPT ![w].pc = "done"]
               /\ UNCHANGED <<persist, caller, derive, model, quarantine>>
  /\ UNCHANGED <<persist, caller, derive, config, queues, px, images, autosave, stopper, src, issued, rollbacks, redacted>>

\* -------------------------------------------------------- anonymize_file
\* project_model.storage_classes
storage_classes == {"1.5.1"}

\* tag_keep of a script that keeps the patient id and hashes the dates
DateKeepScript ==
  [t \in DOMAIN DefaultScript \cup {"studydate", "birthdate"} |->
     IF t \in DOMAIN DefaultScript THEN DefaultScript[t] ELSE "@hashdate"]

\* tag_keep of a script that lists the UIDs and the dates only
DateScript ==
  [t \in DOMAIN CustomScript \cup {"studydate", "birthdate"} |->
     IF t \in DOMAIN CustomScript THEN CustomScript[t] ELSE "@hashdate"]

FileScripts == {DateKeepScript, DateScript}

\* what dcmread does with a file: it returns the dataset or raises
NoDatasetErrors == {"FileNotFoundError", "IsADirectoryError", "PermissionError"}

SourceFile(name, read, ds) == [name |-> name, read |-> read, ds |-> ds, n |-> 0]

\* an instance with the dates of its study and its patient
DatedDataset(sop, pid, study, studydate) ==
  [Dataset(sop, pid, "DOE", "1", FALSE) EXCEPT
     !.study = study, !.studydate = studydate, !.birthdate = "19700101"]

\* the files a caller may pass: two instances of two studies of one
\* patient, a file holding the first instance again with a storage class
\* outside the project, a file with an empty SeriesInstanceUID and that
\* storage class, a new instance of that storage class, an instance of a
\* second patient, and five paths dcmread fails on
SourceFiles ==
  { SourceFile("a.dcm", "ok", DatedDataset("1.9.1", "P1", "1.7", "20220101")),
    SourceFile("a2.dcm", "ok", DatedDataset("1.9.2", "P1", "1.7.2", "20220315")),
    SourceFile("b.dcm", "ok",
      [DatedDataset("1.9.1", "P1", "1.7", "20220101") EXCEPT !.sopclass = "1.5.9"]),
    SourceFile("c.dcm", "ok",
      [DatedDataset("1.9.3", "P2", "1.7.3", "20220101") EXCEPT !.sopclass = "1.5.9", !.series = ""]),
    SourceFile("d.dcm", "ok",
      [DatedDataset("1.9.4", "P2", "1.7.3", "20220101") EXCEPT !.sopclass = "1.5.9"]),
    SourceFile("e.dcm", "ok", DatedDataset("1.9.5", "P2", "1.7.5", "20220101")),
    SourceFile("missing.dcm", "FileNotFoundError", NoDataset),
    SourceFile("folder", "IsADirectoryError", NoDataset),
    SourceFile("locked.dcm", "PermissionError", NoDataset),
    SourceFile("notes.txt", "InvalidDicomError", NoDataset),
    SourceFile("cut.dcm", "Exception", NoDataset) }

\* datetime.now().strftime("%H%M%S") at the time of a file quarantine
TimeStamps == {"120000", "120001"}

\* a controller that is running, with a script that hashes dates
InitFile ==
  /\ script \in FileScripts
  /\ remove_pixel_phi = FALSE
  /\ ctor_pc = "done"
  /\ active = TRUE
  /\ auto_pc = "end"
  /\ InitCommon

\* the pseudo_key_map of a key file: one that lists the first patient, and
\* one that lists both patients under other anon ids
KeyMaps ==
  { Put(EmptyMap, "P1", "MyNewID-1"),
    Put(Put(EmptyMap, "P1", "MyNewID-3"), "P2", "MyNewID-4") }

PseudoKeyConfigs ==
  { [enabled |-> TRUE, quarantine_on_missing_id |-> q, map |-> km] : q \in BOOLEAN, km \in KeyMaps }

\* a running controller of a project with pseudo-key lookup enabled
InitPseudo ==
  /\ script = DateKeepScript
  /\ remove_pixel_phi = FALSE
  /\ ctor_pc = "done"
  /\ active = TRUE
  /\ auto_pc = "end"
  /\ InitRuntime /\ InitNoModelFile /\ InitNoCalls
  /\ pseudo \in PseudoKeyConfigs

\* between two calls the operator points pseudo_key_config at another key
\* file or changes quarantine_on_missing_id, and the model reloads it
ReplacePseudoKeys ==
  /\ wk[Caller].pc = "idle"
  /\ fl.n < MaxFiles
  /\ \E pk \in PseudoKeyConfigs :
       /\ pk # pseudo
       /\ pseudo' = pk
  /\ UNCHANGED <<script, remove_pixel_phi, persist, caller, derive, model, queues, px, files,
                 autosave, stopper, wk, src, outcome, issued, rollbacks, redacted>>

\* the call: _model_change_flag is set before the file is read
AnonymizeFile ==
  /\ wk[Caller].pc = "idle"
  /\ fl.n < MaxFiles
  /\ \E f \in SourceFiles :
       /\ fl' = [f EXCEPT !.n = fl.n + 1]
       /\ src' = Append(src, f.ds)
  /\ outcome' = Append(outcome, "pending")
  /\ flag' = TRUE
  /\ wk' = [wk EXCEPT ![Caller] = [IdleCaller EXCEPT !.pc = "read", !.id = Len(src) + 1]]
  /\ UNCHANGED <<persist, captured, derive, model, config, queues, px, files, disk, event, auto_pc,
                 stopper, issued, rollbacks, redacted>>

\* a read that quarantines the file whatever dcmread raised
FileRead_quarantining_every_error ==
  /\ wk[Caller].pc = "read"
  /\ IF fl.read = "ok"
       THEN wk' = [wk EXCEPT ![Caller].ds = fl.ds, ![Caller].pc = "check_attributes"]
       ELSE wk' = [wk EXCEPT ![Caller].pc = "move", ![Caller].qkind =
                 IF fl.read = "InvalidDicomError" THEN "INVALID_DICOM" ELSE "DICOM_READ_ERROR"]
  /\ UNCHANGED <<persist, caller, derive, model, config, queues, px, files, autosave, stopper, src,
                 outcome, issued, rollbacks, redacted>>

\* dcmread and its except clauses
FileRead ==
  /\ wk[Caller].pc = "read"
  /\ IF fl.read = "ok"
       THEN /\ wk' = [wk EXCEPT ![Caller].ds = fl.ds, ![Caller].pc = "check_attributes"]
            /\ UNCHANGED outcome
     ELSE IF fl.read \in NoDatasetErrors
       THEN /\ wk' = [wk EXCEPT ![Caller].pc = "idle"]
            /\ outcome' = [outcome EXCEPT ![wk[Caller].id] = fl.read]
     ELSE /\ wk' = [wk EXCEPT ![Caller].pc = "move", ![Caller].qkind =
                 IF fl.read = "InvalidDicomError" THEN "INVALID_DICOM" ELSE "DICOM_READ_ERROR"]
          /\ UNCHANGED outcome
  /\ UNCHANGED <<persist, caller, derive, model, config, queues, px, files, autosave, stopper, src,
                 issued, rollbacks, redacted>>

\* a check of the required attributes that goes on to the storage class
FileCheckAttributes_then_storage_class ==
  /\ wk[Caller].pc = "check_attributes"
  /\ IF missing_attributes(wk[Caller].ds) # {}
       THEN wk' = [wk EXCEPT ![Caller].pc = "move", ![Caller].qkind = "MISSING_ATTRIBUTES"]
       ELSE wk' = [wk EXCEPT ![Caller].pc = "check_class"]
  /\ UNCHANGED <<persist, caller, derive, model, config, queues, px, files, autosave, stopper, src,
                 outcome, issued, rollbacks, redacted>>

\* missing_attributes(ds)
FileCheckAttributes ==
  /\ wk[Caller].pc = "check_attributes"
  /\ IF missing_attributes(wk[Caller].ds) # {}
       THEN wk' = [wk EXCEPT ![Caller].pc = "move", ![Caller].qkind = "MISSING_ATTRIBUTES"]
       ELSE wk' = [wk EXCEPT ![Caller].pc = "check_duplicate"]
  /\ UNCHANGED <<persist, caller, derive, model, config, queues, px, files, autosave, stopper, src,
                 outcome, issued, rollbacks, redacted>>

\* "if self.model.get_anon_uid(ds.SOPInstanceUID)": a truthy anon UID
already_stored(m, ds) == get_anon_uid(m, ds.sop) \notin {NoneVal, ""}

\* a duplicate check that lets every instance through
FileCheckDuplicate_letting_through ==
  /\ wk[Caller].pc = "check_duplicate"
  /\ wk' = [wk EXCEPT ![Caller].pc = "check_class"]
  /\ UNCHANGED <<persist, caller, derive, model, config, queues, px, files, autosave, stopper, src,
                 outcome, issued, rollbacks, redacted>>

\* the duplicate check returns "Instance already stored" with the dataset
FileCheckDuplicate ==
  /\ wk[Caller].pc = "check_duplicate"
  /\ IF already_stored(model, wk[Caller].ds)
       THEN /\ wk' = [wk EXCEPT ![Caller].pc = "idle"]
            /\ outcome' = [outcome EXCEPT ![wk[Caller].id] = "already_stored"]
       ELSE /\ wk' = [wk EXCEPT ![Caller].pc = "check_class"]
            /\ UNCHANGED outcome
  /\ UNCHANGED <<persist, caller, derive, model, config, queues, px, files, autosave, stopper, src,
                 issued, rollbacks, redacted>>

\* ds.SOPClassUID not in project_model.storage_classes, else anonymize
FileCheckStorageClass ==
  /\ wk[Caller].pc = "check_class"
  /\ IF wk[Caller].ds.sopclass \notin storage_classes
       THEN wk' = [wk EXCEPT ![Caller].pc = "move", ![Caller].qkind = "INVALID_STORAGE_CLASS"]
       ELSE wk' = [wk EXCEPT ![Caller].pc = "begin"]
  /\ UNCHANGED <<persist, caller, derive, model, config, queues, px, files, autosave, stopper, src,
                 outcome, issued, rollbacks, redacted>>

\* the quarantine path of a file: KIND / "{file.name}.{HHMMSS}"
quarantine_file_path(name, timestamp) == <<name \o "." \o timestamp>>

\* a file quarantine that counts the file whether or not it was copied
MoveFileToQuarantine_counting_failures ==
  /\ wk[Caller].pc = "move"
  /\ \E timestamp \in TimeStamps :
       LET kind == wk[Caller].qkind
           qpath == quarantine_file_path(fl.name, timestamp)
       IN  /\ model' = increment_quarantined(model)
           /\ IF \E q \in quarantine : q.kind = kind /\ q.path = qpath
                THEN /\ outcome' = [outcome EXCEPT ![wk[Caller].id] = "exists"]
                     /\ UNCHANGED quarantine
                ELSE /\ quarantine' = quarantine \cup
                          {[id |-> wk[Caller].id, kind |-> kind, path |-> qpath, ds |-> fl.ds]}
                     /\ outcome' = [outcome EXCEPT ![wk[Caller].id] = kind]
  /\ wk' = [wk EXCEPT ![Caller].pc = "idle"]
  /\ UNCHANGED <<persist, caller, derive, config, queues, px, images, autosave, stopper, src,
                 issued, rollbacks, redacted>>

\* _move_file_to_quarantine: an existing target is left alone and the move
\* fails; copyfile may raise, which is caught and logged; the count is
\* incremented after the copy
MoveFileToQuarantine ==
  /\ wk[Caller].pc = "move"
  /\ \E timestamp \in TimeStamps :
       LET kind == wk[Caller].qkind
           qpath == quarantine_file_path(fl.name, timestamp)
       IN  IF \E q \in quarantine : q.kind = kind /\ q.path = qpath
             THEN /\ outcome' = [outcome EXCEPT ![wk[Caller].id] = "exists"]
                  /\ UNCHANGED <<model, quarantine>>
             ELSE \/ /\ quarantine' = quarantine \cup
                          {[id |-> wk[Caller].id, kind |-> kind, path |-> qpath, ds |-> fl.ds]}
                     /\ model' = increment_quarantined(model)
                     /\ outcome' = [outcome EXCEPT ![wk[Caller].id] = kind]
                  \/ /\ outcome' = [outcome EXCEPT ![wk[Caller].id] = "lost"]
                     /\ UNCHANGED <<model, quarantine>>
  /\ wk' = [wk EXCEPT ![Caller].pc = "idle"]
  /\ UNCHANGED <<persist, caller, derive, config, queues, px, images, autosave, stopper, src,
                 issued, rollbacks, redacted>>

\* anonymize has returned to anonymize_file, which returns its result
FileReturn ==
  /\ wk[Caller].pc = "done"
  /\ wk' = [wk EXCEPT ![Caller].pc = "idle"]
  /\ UNCHANGED <<persist, caller, derive, model, config, queues, px, files, autosave, stopper, src,
                 outcome, issued, rollbacks, redacted>>

\* ------------------------------------------ _anonymizer_pixel_phi_worker
PxDequeue ==
  /\ px.pc = "get"
  /\ px_Q # <<>>
  /\ px_Q' = Tail(px_Q)
  /\ px' = IF Head(px_Q) = NoneVal THEN [pc |-> "sentinel", path |-> NoneVal]
           ELSE [pc |-> "redact", path |-> Head(px_Q)]
  /\ UNCHANGED <<persist, caller, derive, model, config, ds_Q, ds_unfinished, px_unfinished, wk, files, autosave,
                 stopper, src, outcome, issued, rollbacks, redacted>>

\* remove_pixel_phi(path, ocr_reader); an exception is caught and logged
PxRedact ==
  /\ px.pc = "redact"
  /\ redacted' = redacted \cup {px.path}
  /\ px' = [px EXCEPT !.pc = "done"]
  /\ UNCHANGED <<persist, caller, derive, model, config, queues, wk, files, autosave, stopper, src, outcome, issued, rollbacks>>

PxTaskDone ==
  /\ px.pc = "done"
  /\ px_unfinished' = px_unfinished - 1
  /\ px' = [pc |-> "get", path |-> NoneVal]
  /\ UNCHANGED <<persist, caller, derive, model, config, ds_Q, ds_unfinished, px_Q, wk, files, autosave, stopper,
                 src, outcome, issued, rollbacks, redacted>>

PxSentinelDone ==
  /\ px.pc = "sentinel"
  /\ px_unfinished' = px_unfinished - 1
  /\ px' = [pc |-> "end", path |-> NoneVal]
  /\ UNCHANGED <<persist, caller, derive, model, config, ds_Q, ds_unfinished, px_Q, wk, files, autosave, stopper,
                 src, outcome, issued, rollbacks, redacted>>

\* ----------------------------------------------------- _autosave_manager
\* while self._active:
AutosaveLoop ==
  /\ auto_pc = "loop"
  /\ auto_pc' = IF active THEN "wait" ELSE "end"
  /\ UNCHANGED <<persist, caller, derive, model, config, queues, wk, px, files, disk, flag, event, stopper,
                 src, outcome, issued, rollbacks, redacted>>

\* _autosave_event.wait(timeout=...) returns on the event or on the timeout;
\* if self._model_change_flag:
AutosaveWake ==
  /\ auto_pc = "wait"
  /\ auto_pc' = IF flag THEN "save" ELSE "loop"
  /\ UNCHANGED <<persist, caller, derive, model, config, queues, wk, px, files, disk, flag, event, stopper,
                 src, outcome, issued, rollbacks, redacted>>

\* self.save_model()
AutosaveSave ==
  /\ auto_pc = "save"
  /\ disk' = model
  /\ fs' = save(fs, model)
  /\ auto_pc' = "clear"
  /\ UNCHANGED <<saver, booted, crashes, caller, derive, model, config, queues, wk, px, files, flag, event, stopper,
                 src, outcome, issued, rollbacks, redacted>>

\* self._model_change_flag = False
AutosaveClear ==
  /\ auto_pc = "clear"
  /\ flag' = FALSE
  /\ auto_pc' = "loop"
  /\ UNCHANGED <<persist, caller, derive, model, config, queues, wk, px, files, disk, event, stopper,
                 src, outcome, issued, rollbacks, redacted>>

\* ------------------------------------------------- _stop_worker_threads
StopPutSentinel ==
  /\ ctor_pc = "done"
  /\ active
  /\ stop_pc \in {"idle", "put"}
  /\ ds_Q' = Append(ds_Q, 0)
  /\ ds_unfinished' = ds_unfinished + 1
  /\ stop_sent' = stop_sent + 1
  /\ stop_pc' = IF stop_sent + 1 = NUMBER_OF_DATASET_WORKER_THREADS THEN "join_ds" ELSE "put"
  /\ UNCHANGED <<persist, caller, derive, model, config, px_Q, px_unfinished, wk, px, files, autosave, active,
                 ctor_pc, src, outcome, issued, rollbacks, redacted>>

\* a stop() that goes on without self._anon_ds_Q.join()
StopJoinDatasetQueue_without_join ==
  /\ stop_pc = "join_ds"
  /\ stop_pc' = IF remove_pixel_phi THEN "put_px" ELSE "join_threads"
  /\ UNCHANGED <<persist, caller, derive, model, config, queues, wk, px, files, autosave, active, ctor_pc,
                 stop_sent, src, outcome, issued, rollbacks, redacted>>

\* self._anon_ds_Q.join()
StopJoinDatasetQueue ==
  /\ stop_pc = "join_ds"
  /\ ds_unfinished = 0
  /\ stop_pc' = IF remove_pixel_phi THEN "put_px" ELSE "join_threads"
  /\ UNCHANGED <<persist, caller, derive, model, config, queues, wk, px, files, autosave, active, ctor_pc,
                 stop_sent, src, outcome, issued, rollbacks, redacted>>

StopPutPixelSentinel ==
  /\ stop_pc = "put_px"
  /\ px_Q' = Append(px_Q, NoneVal)
  /\ px_unfinished' = px_unfinished + 1
  /\ stop_pc' = "join_px"
  /\ UNCHANGED <<persist, caller, derive, model, config, ds_Q, ds_unfinished, wk, px, files, autosave, active,
                 ctor_pc, stop_sent, src, outcome, issued, rollbacks, redacted>>

\* self._anon_px_Q.join()
StopJoinPixelQueue ==
  /\ stop_pc = "join_px"
  /\ px_unfinished = 0
  /\ stop_pc' = "join_threads"
  /\ UNCHANGED <<persist, caller, derive, model, config, queues, wk, px, files, autosave, active, ctor_pc,
                 stop_sent, src, outcome, issued, rollbacks, redacted>>

\* worker.join() of every worker thread; a thread an exception has ended
\* is joined like one that has returned
StopJoinThreads ==
  /\ stop_pc = "join_threads"
  /\ \A w \in Workers : wk[w].pc \in {"end", "dead"}
  /\ px.pc \in {"off", "end"}
  /\ stop_pc' = "set_event"
  /\ UNCHANGED <<persist, caller, derive, model, config, queues, wk, px, files, autosave, active, ctor_pc,
                 stop_sent, src, outcome, issued, rollbacks, redacted>>

StopSetEvent ==
  /\ stop_pc = "set_event"
  /\ event' = TRUE
  /\ stop_pc' = "deactivate"
  /\ UNCHANGED <<persist, caller, derive, model, config, queues, wk, px, files, disk, flag, auto_pc, active,
                 ctor_pc, stop_sent, src, outcome, issued, rollbacks, redacted>>

StopDeactivate ==
  /\ stop_pc = "deactivate"
  /\ active' = FALSE
  /\ stop_pc' = "returned"
  /\ UNCHANGED <<persist, caller, derive, model, config, queues, wk, px, files, autosave, ctor_pc,
                 stop_sent, src, outcome, issued, rollbacks, redacted>>

\* ------------------------------------------- start-up, save and crash
\* the models a project directory may hold from earlier runs
StoredModel == capture_phi(NewModel, Dataset("1.9.0", "P0", "DOE", "1", FALSE))

BootFiles ==
  { NoFile, UnreadableFile, CorruptFile, NoVersionFile(StoredModel),
    ModelFile(StoredModel, MODEL_VERSION), ModelFile(StoredModel, MODEL_VERSION - 1) }

\* a project directory as a start-up may find it, before __init__: a backup
\* file is there only if a model file was saved over; either may be damaged
InitBoot ==
  /\ script = CustomScript
  /\ remove_pixel_phi = FALSE
  /\ ctor_pc = "load"
  /\ active = FALSE
  /\ auto_pc = "off"
  /\ InitRuntime
  /\ fs \in [path : BootFiles, bak : BootFiles, tmp : {NoFile}]
  /\ fs.path = NoFile => fs.bak = NoFile
  /\ saver = IdleSaver
  /\ booted = NotBooted
  /\ crashes = 0
  /\ InitNoCalls
  /\ InitNoPseudoKeys

\* __init__ up to the start of the threads: load the model file if it
\* exists, upgrade a model of another version and save it, start from a
\* new default model if there is no model file
CtorLoad ==
  /\ ctor_pc = "load"
  /\ LET r == load_model(fs)
         found == [booted EXCEPT !.path = fs.path, !.bak = fs.bak]
     IN  IF fs.path.kind = "absent"
           THEN /\ model' = NewModel
                /\ booted' = [found EXCEPT !.outcome = "default", !.m = NewModel]
                /\ ctor_pc' = "activate"
                /\ auto_pc' = "loop"
         ELSE IF ~r.ok
           THEN /\ booted' = [found EXCEPT !.outcome = "error"]
                /\ ctor_pc' = "failed"
                /\ UNCHANGED <<model, auto_pc>>
         ELSE /\ model' = r.file.m
              /\ booted' = [found EXCEPT !.outcome = "loaded", !.m = r.file.m]
              /\ IF r.file.version # MODEL_VERSION
                   THEN ctor_pc' = "upgrade" /\ UNCHANGED auto_pc
                   ELSE ctor_pc' = "activate" /\ auto_pc' = "loop"
  /\ UNCHANGED <<fs, saver, crashes, caller, derive, disk, config, active, flag, event,
                 queues, wk, px, stop_pc, stop_sent, files, src, outcome, issued,
                 rollbacks, redacted>>

\* anonymize changes the model: capture_phi of a dataset not seen before
ModelChange ==
  /\ ctor_pc = "done"
  /\ \E k \in 1..MaxDatasets :
       LET ds == Dataset("1.9." \o ToString(k), "P1", "DOE", "1", FALSE)
       IN  /\ ds.sop \notin DOMAIN model.uid_map
           /\ model' = capture_phi(model, ds)
           /\ issued' = issued \cup NewPairs(model, model')
  /\ flag' = TRUE
  /\ UNCHANGED <<persist, caller, derive, disk, config, ctor_pc, active, event, auto_pc,
                 queues, wk, px, stop_pc, stop_sent, files, src, outcome,
                 rollbacks, redacted>>

\* save(): the model is serialized to path.tmp
SaveWriteTmp ==
  /\ ctor_pc \in {"upgrade", "done"}
  /\ saver.pc = "idle"
  /\ fs' = save_write_tmp(fs, model)
  /\ saver' = [pc |-> "rotate", old |-> fs.path, new |-> ModelFile(model, MODEL_VERSION)]
  /\ UNCHANGED <<booted, crashes, caller, derive, model, disk, config, ctor_pc, active,
                 flag, event, auto_pc, queues, wk, px, stop_pc, stop_sent, files, src,
                 outcome, issued, rollbacks, redacted>>

\* save(): path is rotated to path.bak
SaveRotate ==
  /\ saver.pc = "rotate"
  /\ fs' = save_rotate(fs)
  /\ saver' = [saver EXCEPT !.pc = "rename"]
  /\ UNCHANGED <<booted, crashes, caller, derive, model, disk, config, ctor_pc, active,
                 flag, event, auto_pc, queues, wk, px, stop_pc, stop_sent, files, src,
                 outcome, issued, rollbacks, redacted>>

\* save(): path.tmp is renamed to path; __init__ goes on to start the
\* threads after the save of an upgraded model
SaveRename ==
  /\ saver.pc = "rename"
  /\ fs' = save_rename(fs)
  /\ disk' = saver.new.m
  /\ saver' = [saver EXCEPT !.pc = "idle"]
  /\ IF ctor_pc = "upgrade"
       THEN ctor_pc' = "activate" /\ auto_pc' = "loop"
       ELSE UNCHANGED <<ctor_pc, auto_pc>>
  /\ UNCHANGED <<booted, crashes, caller, derive, model, config, active,
                 flag, event, queues, wk, px, stop_pc, stop_sent, files, src,
                 outcome, issued, rollbacks, redacted>>

\* the process ends at any point and the next start-up begins: what was in
\* memory is gone, the files stay as they are
Crash ==
  /\ ctor_pc # "load"
  /\ crashes < MaxCrashes
  /\ crashes' = crashes + 1
  /\ model' = NewModel
  /\ ctor_pc' = "load"
  /\ active' = FALSE
  /\ flag' = FALSE
  /\ auto_pc' = "off"
  /\ saver' = IdleSaver
  /\ booted' = [NotBooted EXCEPT !.in_save = Usable(saver.new),
                                 !.old = saver.old, !.new = saver.new]
  /\ UNCHANGED <<fs, caller, derive, disk, config, event, queues, wk, px, stop_pc,
                 stop_sent, files, src, outcome, issued, rollbacks, redacted>>

\* ------------------------------------------- calls of the derivations
\* date values of source elements: calendar dates, dates before 1900,
\* impossible dates, and texts of other shapes
SourceDates ==
  { "20220101", "20220415", "20220115", "20200229", "19000101", "18991231",
    "20210229", "20201301", "2020115", "202011", "99991231", "badinput", "" }

DatePatientIDs == {"P1", "P2", "12345", ""}

\* operations of @modifydate elements
ModifyOperations ==
  { "2022,1,1", "this,*,1,1", "*,*,*,1", "2023,*,*", "*,1,1", "foo,1,1", "2022,2,30",
    "this,1", "1,1,1,1,1", "", "@modifydate(this,*,3,5)", "@modifydate(2022,11,14)",
    "THIS,2022,1,1", "that,2022,1,1", "*,2021,*,*", "*,999,1,1", "5,1,1", "0,1,1",
    "2022,13,1", "*,*,*" }

\* time values of source elements
SourceTimes ==
  { "000000", "000001", "000002", "180000", "230000", "12", "0759", "000060",
    "000000.12", "000000.14", "000000.24", "000000.1", "000000.3",
    "000000.000000", "000000.000001", "000000.000002",
    "000001.179316", "000001.179317", "000001.179319", "000001.179321",
    "213806.501365", "213806.501367", "235959.999999",
    "12 ", "12  ", "075930 ", "000000.12 ", "000000.123456 ",
    "24", "0060", "000000.", "" }

TimePatientIDs == {"P1", "P2", "Patient-ID", ""}

\* a constructed controller at rest
InitDerive ==
  /\ script = CustomScript
  /\ remove_pixel_phi = FALSE
  /\ ctor_pc = "done"
  /\ active = TRUE
  /\ auto_pc = "end"
  /\ InitCommon

Returned(c, r) ==
  /\ call' = c
  /\ result' = r
  /\ UNCHANGED <<keyfile, keys, persist, caller, model, disk, config, ctor_pc, active, flag, event,
                 auto_pc, queues, wk, px, stop_pc, stop_sent, files, src, outcome,
                 issued, rollbacks, redacted>>

\* the first call on the controller is one of _hash_date
HashDate ==
  \E date \in SourceDates, patient_id \in DatePatientIDs, pad \in BOOLEAN :
    /\ call = NoCall
    /\ Returned([fn |-> "hash_date", a |-> date, b |-> patient_id, pad |-> pad],
                hash_date(date, patient_id, pad))
    /\ UNCHANGED prev

\* the first call on the controller is one of _modify_date
ModifyDate ==
  \E date \in SourceDates, operation \in ModifyOperations, pad \in BOOLEAN :
    /\ call = NoCall
    /\ Returned([fn |-> "modify_date", a |-> date, b |-> operation, pad |-> pad],
                modify_date(date, operation, pad))
    /\ UNCHANGED prev

\* a first call of _hash_time, or a second one after it; the first is
\* remembered
HashTime ==
  \E time_str \in SourceTimes, patient_id \in TimePatientIDs :
    /\ call = NoCall \/ (call.fn = "hash_time" /\ prev.call = NoCall)
    /\ Returned([fn |-> "hash_time", a |-> time_str, b |-> patient_id, pad |-> FALSE],
                hash_time(time_str, patient_id))
    /\ prev' = IF call.fn = "hash_time" THEN [call |-> call, result |-> result] ELSE prev

\* ------------------------------------------------- transforming elements
\* operations of a script: the ones of the default script, operations
\* that hold two tokens, and operations that hold none
ElementOperations ==
  { "", "@keep", "@empty", "@hashuid", "@hashacc", "@hashdate", "@modifydate(this,*,3,5)",
    "@hashtime", "@round(5)", "@round(0)", "@round", "@param(@PROJECTNAME)", "@param(@SITEUID)", "@param(@siteuid)",
    "@param(@MISSING)", "@param", "@always@empty", "@round(5)@hashtime", "@hashdate@modifydate(2022,1,1)",
    "@param(@PROJECTNAME)@round(5)", "@hashtime@hashdate", "@accuid", "@remove", "@always" }

\* values of source elements: a date, a time, an age, a UID, an empty value
ElementValues == {"20220101", "075930", "045Y", "1.2.3", ""}

\* age strings of source elements
AgeStrings ==
  { "045Y", "45Y", "42Y", "047Y", "025Y", "035Y", "005Y", "000Y", "099Y", "100Y", "6M", "018M",
    " 045Y ", "45", "Y", " Y", "", "  ", "4Y5", "997Y", NoneVal }

\* the widths an operation can give: its first digit
Widths == 0..9

\* the first call on the controller is one of _anonymize_element, on an
\* element of a kept tag
AnonymizeElement ==
  \E operation \in ElementOperations, value \in ElementValues, patient_id \in {"P1", ""} :
    /\ call = NoCall
    /\ \E r \in {anonymize_element(model, patient_id, operation, value)} :
         /\ result' = [n |-> r.n, s |-> r.s]
         /\ model' = r.m
    /\ call' = [fn |-> "anonymize_element", a |-> value, b |-> operation, pad |-> patient_id # ""]
    /\ UNCHANGED <<prev, keyfile, keys, persist, caller, disk, config, ctor_pc, active, flag, event,
                   auto_pc, queues, wk, px, stop_pc, stop_sent, files, src, outcome,
                   issued, rollbacks, redacted>>

\* the first call on the controller is one of _round_age
RoundAge ==
  \E age_string \in AgeStrings, width \in Widths :
    /\ call = NoCall
    /\ Returned([fn |-> "round_age", a |-> age_string, b |-> ToString(width), pad |-> FALSE],
                [n |-> 0, s |-> round_age(age_string, width)])
    /\ UNCHANGED prev

\* ------------------------------------------- datasets with sequences
\* the elements of a dataset in the order of their tags: the ones of
\* Elements with StudyTime (0008,0030) and PatientBirthTime (0010,0032), and
\* a sequence (0040,0275) at the end
WalkTags ==
  <<"sop", "studydate", "studytime", "acc", "name", "pid", "birthdate", "birthtime",
    "study", "series", "frame", "seq">>

\* a walk that does not go into the items of a sequence
RECURSIVE walk_top_level_only(_, _, _, _), walked_top_level_element(_, _, _, _)
walk_top_level_only(m, tag_keep, ds, i) ==
  IF i > Len(WalkTags) THEN [ds |-> ds, m |-> m, raised |-> FALSE]
  ELSE IF WalkTags[i] = "seq"
    THEN IF ds.seq # <<>> /\ "seq" \notin DOMAIN tag_keep
           THEN walk_top_level_only(m, tag_keep, [ds EXCEPT !.seq = <<>>], i + 1)
           ELSE walk_top_level_only(m, tag_keep, ds, i + 1)
  ELSE IF ds[WalkTags[i]] = ABSENT THEN walk_top_level_only(m, tag_keep, ds, i + 1)
  ELSE IF WalkTags[i] \notin DOMAIN tag_keep
    THEN walk_top_level_only(m, tag_keep, [ds EXCEPT ![WalkTags[i]] = ABSENT], i + 1)
  ELSE walked_top_level_element(
         anonymize_element(m, IF ds.pid = ABSENT THEN "" ELSE ds.pid,
                           tag_keep[WalkTags[i]], ds[WalkTags[i]]),
         tag_keep, ds, i)

walked_top_level_element(r, tag_keep, ds, i) ==
  IF r.s = RAISED THEN [ds |-> ds, m |-> r.m, raised |-> TRUE]
  ELSE walk_top_level_only(r.m, tag_keep, [ds EXCEPT ![WalkTags[i]] = r.s], i + 1)

\* ds.walk(self._anonymize_element): the callback is called with the
\* dataset that holds the element, for every element in the order of the
\* tags; after the callback of a sequence element that is still in the
\* dataset, each of its items is walked in the same way. The sequence is the
\* last element: position Len(WalkTags) + k is the walk of its k-th item.
\* The scripts give a sequence no operation other than @keep.
RECURSIVE walk(_, _, _, _), walked_element(_, _, _, _), walked_item(_, _, _, _)
walk(m, tag_keep, ds, i) ==
  IF i > Len(WalkTags) + Len(ds.seq) THEN [ds |-> ds, m |-> m, raised |-> FALSE]
  ELSE IF i > Len(WalkTags)
    THEN walked_item(walk(m, tag_keep, ds.seq[i - Len(WalkTags)], 1), tag_keep, ds, i)
  ELSE IF WalkTags[i] = "seq"
    THEN IF ds.seq # <<>> /\ "seq" \notin DOMAIN tag_keep
           THEN walk(m, tag_keep, [ds EXCEPT !.seq = <<>>], i + 1)
           ELSE walk(m, tag_keep, ds, i + 1)
  ELSE IF ds[WalkTags[i]] = ABSENT THEN walk(m, tag_keep, ds, i + 1)
  ELSE IF WalkTags[i] \notin DOMAIN tag_keep
    THEN walk(m, tag_keep, [ds EXCEPT ![WalkTags[i]] = ABSENT], i + 1)
  ELSE walked_element(
         anonymize_element(m, IF ds.pid = ABSENT THEN "" ELSE ds.pid,
                           tag_keep[WalkTags[i]], ds[WalkTags[i]]),
         tag_keep, ds, i)

\* the walk after the callback of the element at position i has returned r
walked_element(r, tag_keep, ds, i) ==
  IF r.s = RAISED THEN [ds |-> ds, m |-> r.m, raised |-> TRUE]
  ELSE walk(r.m, tag_keep, [ds EXCEPT ![WalkTags[i]] = r.s], i + 1)

\* the walk after the walk of the item at position i has returned r
walked_item(r, tag_keep, ds, i) ==
  IF r.raised THEN [ds |-> ds, m |-> r.m, raised |-> TRUE]
  ELSE walk(r.m, tag_keep, [ds EXCEPT !.seq[i - Len(WalkTags)] = r.ds], i + 1)

\* tag_keep of a script that keeps the patient id and the sequence, hashes
\* the identifiers, the dates and the times and does not list the frame of
\* reference
SequenceScript ==
  [t \in {"sop", "studydate", "studytime", "acc", "name", "pid", "birthdate", "birthtime",
          "study", "series", "seq"} |->
     CASE t \in {"sop", "study", "series"} -> "@hashuid"
       [] t = "acc" -> "@hashacc"
       [] t = "name" -> "@empty"
       [] t \in {"studydate", "birthdate"} -> "@hashdate"
       [] t \in {"studytime", "birthtime"} -> "@hashtime"
       [] OTHER -> "@keep"]

Without(tag_keep, tag) == [t \in DOMAIN tag_keep \ {tag} |-> tag_keep[t]]

\* that script, the same with an emptied patient id, without the patient
\* id, and without the sequence
WalkScripts ==
  { SequenceScript,
    [SequenceScript EXCEPT !["pid"] = "@empty"],
    Without(SequenceScript, "pid"),
    Without(SequenceScript, "seq") }

\* an item of a sequence: a dataset with few elements
SequenceItem(pid, studydate, studytime, seq) ==
  [NoDataset EXCEPT !.pid = pid, !.studydate = studydate, !.studytime = studytime,
                    !.acc = "1", !.frame = "1.8", !.seq = seq,
                    !.study = ABSENT, !.series = ABSENT, !.sopclass = ABSENT]

\* the sequences of a source dataset: none, one item with the date and time
\* of the study, one item that names the patient too, two items, and an
\* item that holds a sequence itself
SourceSequences ==
  LET plain == SequenceItem(ABSENT, "20220101", "075930", <<>>)
      named == SequenceItem("P1", "20220101", ABSENT, <<>>)
  IN  { <<>>, <<plain>>, <<named>>, <<plain, named>>,
        <<SequenceItem(ABSENT, ABSENT, "075930", <<plain>>)>> }

\* instances of two patients with a study date and time, a birth date and
\* time, and a sequence
SequenceDatasets ==
  { [DatedDataset("1.9.1", pid, "1.7", "20220101") EXCEPT
       !.studytime = "075930", !.birthtime = birthtime, !.seq = seq] :
    pid \in {"P1", "P2"}, birthtime \in {ABSENT, "075930"}, seq \in SourceSequences }

\* a running controller with one of the scripts
InitWalk ==
  /\ script \in WalkScripts
  /\ remove_pixel_phi = FALSE
  /\ ctor_pc = "done"
  /\ active = TRUE
  /\ auto_pc = "end"
  /\ InitCommon

\* anonymize called by one thread with a dataset
Anonymize ==
  /\ wk[Caller].pc = "idle"
  /\ src = <<>>
  /\ \E ds \in SequenceDatasets :
       /\ src' = Append(src, ds)
       /\ wk' = [wk EXCEPT ![Caller] = [IdleCaller EXCEPT !.pc = "begin", !.id = 1, !.ds = ds]]
  /\ outcome' = Append(outcome, "pending")
  /\ UNCHANGED <<persist, caller, derive, model, config, queues, px, files, autosave, stopper,
                 issued, rollbacks, redacted>>

\* remove_private_tags and _add_always_tags, then the whole walk; any of
\* them may raise
TransformSequences(w) ==
  /\ wk[w].pc = "transform"
  /\ \/ \E r \in {walk(model, script, wk[w].ds, 1)} :
          /\ model' = r.m
          /\ issued' = issued \cup NewPairs(model, r.m)
          /\ wk' = [wk EXCEPT ![w].ds = r.ds, ![w].pc = IF r.raised THEN "except" ELSE "patient"]
     \/ /\ wk' = [wk EXCEPT ![w].pc = "except"]
        /\ UNCHANGED <<model, issued>>
  /\ UNCHANGED <<persist, caller, derive, config, queues, px, files, autosave, stopper, src, outcome,
                 rollbacks, redacted>>

\* ------------------------------------------------- loading pseudo keys
\* the data rows of a pseudo-key file: original ids with and without
\* blanks around them, empty cells, and rows with too few cells
KeyRows ==
  {<<orig, anon>> : orig \in {"", "P1", " P1", "P2"}, anon \in {"", "A1", "A2"}}
    \cup {<<"P1">>, <<>>}

\* header rows: the one of the tests, one with the columns swapped and
\* blanks, one without a column of anonymized ids
KeyHeaders ==
  { <<"Original Patient ID", "Anonymized Patient ID">>, <<"anon", " ID ">>, <<"name", "id">> }

\* the files load_pseudo_keys may be called on: no path, a path that does
\* not exist, a suffix that is neither .csv nor .xlsx, a file that cannot be
\* opened, a file without rows, and files with a header and data rows
KeyFiles ==
  { [NoKeyFile EXCEPT !.path = NoneVal],
    [NoKeyFile EXCEPT !.path = "keys.csv"],
    [NoKeyFile EXCEPT !.path = "keys.txt", !.exists = TRUE, !.readable = TRUE],
    [NoKeyFile EXCEPT !.path = "keys.xlsx", !.exists = TRUE] }
  \cup { [path |-> p, exists |-> TRUE, readable |-> TRUE, header |-> <<>>, rows |-> <<>>] :
           p \in {"keys.csv", "keys.XLSX"} }
  \cup { [path |-> p, exists |-> TRUE, readable |-> TRUE, header |-> h, rows |-> r] :
           p \in {"keys.csv", "keys.XLSX"}, h \in KeyHeaders,
           r \in UNION {[1..n -> KeyRows] : n \in 0..MaxRows} }

\* one call of load_pseudo_keys
LoadPseudoKeys ==
  /\ keyfile = NoKeyFile
  /\ \E f \in KeyFiles :
       /\ keyfile' = f
       /\ keys' = load_pseudo_keys(f)
  /\ UNCHANGED <<call, result, prev, persist, caller, model, disk, config, ctor_pc, active, flag,
                 event, auto_pc, queues, wk, px, stop_pc, stop_sent, files, src, outcome,
                 issued, rollbacks, redacted>>

\* ------------------------------------------------------ specifications
\* one dataset from the queue through anonymize when every lookup of the
\* walk finds its value (capture_phi has minted the UIDs CustomScript hashes)
MintedStep(w) ==
  \/ Dequeue(w) \/ TaskDone(w)
  \/ SetChangeFlag(w) \/ CapturePhi(w) \/ Transform(w)
  \/ WalkLookup(w) \/ SetPatient(w) \/ Store(w)
  \/ Rollback(w) \/ WriteDatasetToQuarantine(w)

\* one dataset from the queue through anonymize
AnonymizeStep(w) == MintedStep(w) \/ WalkMint(w)

WorkerStep(w) == AnonymizeStep(w) \/ PxPut(w) \/ SentinelDone(w)

PixelStep == PxDequeue \/ PxRedact \/ PxTaskDone \/ PxSentinelDone

AutosaveStep == AutosaveLoop \/ AutosaveWake \/ AutosaveSave \/ AutosaveClear

\* stop() of a project without pixel PHI removal
StopDatasetWorkers ==
  \/ StopPutSentinel \/ StopJoinDatasetQueue \/ StopJoinThreads
  \/ StopSetEvent \/ StopDeactivate

StopStep == StopDatasetWorkers \/ StopPutPixelSentinel \/ StopJoinPixelQueue

Next ==
  \/ CtorActivate
  \/ Enqueue
  \/ \E w \in Workers : WorkerStep(w)
  \/ PixelStep
  \/ AutosaveStep
  \/ StopStep

Spec == Init /\ [][Next]_vars

\* the dataset workers on a running controller that is not stopped
NextAnon ==
  \/ Enqueue
  \/ \E w \in Workers : AnonymizeStep(w) \/ PxPut(w)

SpecAnon == InitAnon /\ [][NextAnon]_vars

\* the workers, the pixel worker and stop()
NextPipe ==
  \/ Enqueue
  \/ \E w \in Workers : MintedStep(w) \/ PxPut(w) \/ SentinelDone(w)
  \/ PixelStep
  \/ StopStep

SpecPipe == InitPipe /\ [][NextPipe]_vars

\* the workers, the autosave thread and stop()
NextSave ==
  \/ CtorActivate
  \/ Enqueue
  \/ \E w \in Workers : MintedStep(w) \/ SentinelDone(w)
  \/ AutosaveStep
  \/ StopDatasetWorkers

SpecSave == InitSave /\ [][NextSave]_vars

\* start-up, model changes, save step by step, and crashes
NextBoot ==
  \/ CtorLoad
  \/ CtorActivate
  \/ ModelChange
  \/ SaveWriteTmp \/ SaveRotate \/ SaveRename
  \/ Crash

SpecBoot == InitBoot /\ [][NextBoot]_vars

\* anonymize_file called from one thread, file after file
NextFile ==
  \/ AnonymizeFile \/ FileRead \/ FileCheckAttributes \/ FileCheckDuplicate
  \/ FileCheckStorageClass \/ MoveFileToQuarantine \/ FileReturn
  \/ SetChangeFlag(Caller) \/ CapturePhi(Caller) \/ Transform(Caller)
  \/ WalkLookup(Caller) \/ WalkMint(Caller) \/ SetPatient(Caller)
  \/ Store(Caller) \/ Rollback(Caller) \/ WriteDatasetToQuarantine(Caller)

SpecFile == InitFile /\ [][NextFile]_vars

\* files passed by one caller of a project with pseudo-key lookup, whose
\* key file may be replaced between two calls
NextPseudo == NextFile \/ ReplacePseudoKeys

SpecPseudo == InitPseudo /\ [][NextPseudo]_vars

\* anonymize called by one thread on a dataset with sequences
NextWalk ==
  \/ Anonymize \/ SetChangeFlag(Caller) \/ CapturePhi(Caller) \/ TransformSequences(Caller)
  \/ SetPatient(Caller) \/ Store(Caller) \/ Rollback(Caller) \/ WriteDatasetToQuarantine(Caller)
  \/ FileReturn

SpecWalk == InitWalk /\ [][NextWalk]_vars

\* load_pseudo_keys called on a file
NextKeys == LoadPseudoKeys

SpecKeys == InitDerive /\ [][NextKeys]_vars

\* the element transform and the age rounding called on source values
NextElement == AnonymizeElement \/ RoundAge

SpecElement == InitDerive /\ [][NextElement]_vars

\* the date and time derivations called on source values
NextDerive == HashDate \/ ModifyDate \/ HashTime

SpecDerive == InitDerive /\ [][NextDerive]_vars

\* =============================================================== claims
Submitted == DOMAIN outcome

\* the PHI patient id capture_phi files a dataset under
PhiPatientID(ds) == IF ds.pid = ABSENT THEN "" ELSE ds.pid

\* C1: the lookup-then-mint step of the element transform issues one anon
\* value per PHI value: no PHI UID or accession number is ever given a second
\* anon value, whatever the interleaving of the two dataset workers.
C1_OneAnonValuePerPhiValue ==
  \A a, b \in issued : (a[1] = b[1] /\ a[2] = b[2]) => a[3] = b[3]

Injective(f) == \A a, b \in DOMAIN f : f[a] = f[b] => a = b

IsInverseOf(g, f) == /\ DOMAIN g = Range(f)
                     /\ \A k \in DOMAIN f : g[f[k]] = k

\* C2: uid_map, patient_id_map and accession_map are one-to-one and each
\* inverse map is exactly the inverse of its forward map, after any sequence
\* of capture_phi, get-or-mint and remove_uid operations.
C2_MapsBijective ==
  /\ Injective(model.uid_map) /\ IsInverseOf(model.uid_inv, model.uid_map)
  /\ Injective(model.acc_map) /\ IsInverseOf(model.acc_inv, model.acc_map)
  /\ Injective(model.patient_id_map)
  /\ IsInverseOf(model.patient_id_inv, model.patient_id_map)

\* a stored dataset and a rolled back one have gone through the maps, and a
\* UID was minted by the walk
C2_Witness ==
  /\ \E k \in Submitted : outcome[k] = "stored"
  /\ rollbacks # {}
  /\ \E a \in issued : a[1] = "uid" /\ a[2] = "1.8"

NoAnonValueIssuedTwice ==
  \A a, b \in issued : (a[1] = b[1] /\ a[3] = b[3]) => a[2] = b[2]

\* C3: the three counters never decrease and no counter value is issued to
\* two different PHI values, also after remove_uid has rolled back an
\* instance UID.
C3_CountersNeverReused ==
  [][ /\ model'.next_uid_counter >= model.next_uid_counter
      /\ model'.next_patient_counter >= model.next_patient_counter
      /\ model'.next_accession_counter >= model.next_accession_counter
      /\ NoAnonValueIssuedTwice' ]_vars

\* a UID was minted after a rollback
C3_Witness == \E r \in rollbacks : model.next_uid_counter > r.at

\* C4: once a dataset has been quarantined as STORAGE_ERROR, get_anon_uid of
\* its PHI SOPInstanceUID returns none.
C4_StorageErrorRollsBack ==
  \A k \in Submitted :
    outcome[k] = "STORAGE_ERROR" => get_anon_uid(model, src[k].sop) = NoneVal

\* a dataset whose SOP instance UID capture_phi had minted was quarantined as
\* STORAGE_ERROR
C4_Witness ==
  \E k \in Submitted :
    /\ outcome[k] = "STORAGE_ERROR"
    /\ \E a \in issued : a[1] = "uid" /\ a[2] = src[k].sop

\* C5: every stored dataset has as PatientID and PatientName, and as patient
\* directory, the anon patient id capture_phi assigned to its source
\* PatientID, whatever the script does with the PatientID tag.
C5_OutputPatientIDIsCaptured ==
  \A f \in images :
    LET anon == get_anon_patient_id(model, PhiPatientID(src[f.id]))
    IN  f.ds.pid = anon /\ f.ds.name = anon /\ f.path[1] = anon

\* the PHI identifiers of a source dataset that have a value
PhiValues(ds) ==
  {ds[t] : t \in {"pid", "name", "study", "series", "sop", "acc"}} \ {ABSENT, ""}

\* C6: no stored dataset has a PHI identifier of its source dataset as the
\* value of a text element or as a component of its storage path.
C6_NoPhiInOutput ==
  \A f \in images : \A phi \in PhiValues(src[f.id]) :
    /\ \A t \in DOMAIN Elements : f.ds[Elements[t]] # phi
    /\ \A c \in DOMAIN f.path : f.path[c] # phi

\* C7: anonymize never raises out of the worker: no dataset taken from the
\* queue ends the worker thread.
C7_WorkerNeverRaises == \A w \in Workers : wk[w].pc # "dead"

\* C8: stop() never blocks forever on a queue join: it does not wait for the
\* dataset queue when no dataset worker is left to finish the queued tasks.
C8_StopNeverBlocksForever ==
  ~ ( /\ stop_pc = "join_ds"
      /\ ds_unfinished > 0
      /\ \A w \in Workers : wk[w].pc \in {"end", "dead"} )

QuarantineKinds == {"INVALID_DICOM", "CAPTURE_PHI_ERROR", "STORAGE_ERROR"}

\* every path the stored items put on the pixel queue went to the redactor,
\* the pixel worker has consumed its sentinel and both queues are empty
QueuesDrained ==
  /\ ds_Q = <<>> /\ ds_unfinished = 0
  /\ px_Q = <<>> /\ px_unfinished = 0
  /\ px.pc = "end"
  /\ \A f \in images : f.ds.pixel => f.path \in redacted

C10_NoUnsavedChangeAfterStop ==
  stop_pc = "returned" => (disk = model \/ flag)

\* C11: a start-up after a crash during or after a save, with a usable model
\* file or backup file on disk, loads the model as saved before that save or
\* the newly saved model, and never starts from a new default model.
C11_CrashInSaveLoadsOldOrNew ==
  (booted.outcome # "none" /\ booted.in_save
     /\ (Usable(booted.path) \/ Usable(booted.bak)))
  => /\ booted.outcome = "loaded"
     /\ \/ booted.m = booted.new.m
        \/ Usable(booted.old) /\ booted.m = booted.old.m

\* C12: when the model file exists and cannot be read, cannot be
\* deserialized or has no version, start-up loads the backup file if that is
\* usable, and otherwise fails: __init__ is left by the error and no default
\* model takes the place of the files.
C12_LoadFallsBackOrFails ==
  (booted.outcome # "none"
     /\ booted.path.kind \in {"unreadable", "corrupt", "noversion"})
  => IF Usable(booted.bak)
       THEN booted.outcome = "loaded" /\ booted.m = booted.bak.m
       ELSE booted.outcome = "error" /\ ctor_pc = "failed"

\* a start-up that found a model file pickle could not load has loaded the
\* stored model from the backup file and has completed
C12_Witness ==
  /\ booted.outcome = "loaded"
  /\ booted.path.kind = "corrupt"
  /\ booted.m = StoredModel
  /\ ctor_pc = "done"

\* the first check of the order read, required attributes, duplicate
\* instance, storage class that file f fails against model m
FirstFailingCheck(f, m) ==
  IF f.read # "ok" THEN "read"
  ELSE IF missing_attributes(f.ds) # {} THEN "MISSING_ATTRIBUTES"
  ELSE IF get_anon_uid(m, f.ds.sop) \notin {NoneVal, ""} THEN "already_stored"
  ELSE IF f.ds.sopclass \notin storage_classes THEN "INVALID_STORAGE_CLASS"
  ELSE "none"

\* C13: anonymize_file reaches a check only when the checks before it have
\* passed, leaves with the outcome of the first check that fails (a stored
\* instance of a foreign storage class is "already stored", not
\* quarantined), and enters PHI capture only when all four checks pass.
C13_ChecksInFixedOrder ==
  LET c == wk[Caller]
      first == FirstFailingCheck(fl, model)
  IN  /\ c.pc = "check_attributes" => first # "read"
      /\ c.pc = "check_duplicate" => first \in {"already_stored", "INVALID_STORAGE_CLASS", "none"}
      /\ c.pc = "check_class" => first \in {"INVALID_STORAGE_CLASS", "none"}
      /\ c.pc \in {"begin", "capture"} => first = "none"
      /\ c.pc \in {"transform", "walk", "mint", "patient", "store", "except", "quarantine", "done"} =>
           /\ fl.read = "ok"
           /\ missing_attributes(fl.ds) = {}
           /\ fl.ds.sopclass \in storage_classes
      /\ (c.pc = "move" /\ fl.read = "ok") => c.qkind = first
      /\ (c.pc = "idle" /\ fl.n > 0 /\ fl.read = "ok"
            /\ outcome[c.id] \in {"MISSING_ATTRIBUTES", "already_stored", "INVALID_STORAGE_CLASS"}) =>
           /\ outcome[c.id] = first
           /\ first = "already_stored" => \A q \in quarantine : q.id # c.id

\* a stored instance that came again with a storage class outside the
\* project has been answered "already stored" and nothing was quarantined
C13_Witness ==
  /\ wk[Caller].pc = "idle"
  /\ fl.name = "b.dcm"
  /\ fl.ds.sopclass \notin storage_classes
  /\ outcome[wk[Caller].id] = "already_stored"
  /\ quarantine = {}

\* the images of one source instance
ImagesOf(sop) == {img \in images : src[img.id].sop = sop}

\* C14: the duplicate check on an instance whose SOPInstanceUID has an anon
\* UID returns "already stored" and changes neither the model (maps,
\* counters, quarantined count) nor the images tree nor the quarantine
\* tree; no source instance is stored twice.
C14_DuplicateChangesNothing ==
  /\ [][(wk[Caller].pc = "check_duplicate" /\ already_stored(model, wk[Caller].ds)) =>
          /\ wk'[Caller].pc = "idle"
          /\ outcome'[wk[Caller].id] = "already_stored"
          /\ model' = model
          /\ images' = images
          /\ quarantine' = quarantine]_vars
  /\ [](\A img \in images : Cardinality(ImagesOf(src[img.id].sop)) = 1)

\* the same file was passed twice: it is stored once, the second call was
\* answered "already stored"
C14_Witness ==
  /\ wk[Caller].pc = "idle"
  /\ fl.n = 2
  /\ src[1] = src[2]
  /\ outcome[1] = "stored"
  /\ outcome[2] = "already_stored"
  /\ Cardinality(images) = 1

\* C15: a read that fails with FileNotFoundError, IsADirectoryError or
\* PermissionError returns the error without a dataset and changes neither
\* the quarantine tree nor the quarantined count; InvalidDicomError goes to
\* INVALID_DICOM and every other read error to DICOM_READ_ERROR.
C15_ReadErrors ==
  /\ [][(wk[Caller].pc = "read" /\ fl.read \in NoDatasetErrors) =>
          /\ wk'[Caller].pc = "idle"
          /\ wk'[Caller].ds = NoDataset
          /\ outcome'[wk[Caller].id] = fl.read
          /\ quarantine' = quarantine
          /\ model' = model]_vars
  /\ [](LET c == wk[Caller]
        IN  /\ fl.read \in NoDatasetErrors =>
                 /\ c.pc \in {"read", "idle"}
                 /\ \A q \in quarantine : q.id # c.id
            /\ (fl.n > 0 /\ fl.read \notin NoDatasetErrors \cup {"ok"}) =>
                 /\ c.pc \in {"read", "move", "idle"}
                 /\ c.pc = "move" =>
                      c.qkind = IF fl.read = "InvalidDicomError" THEN "INVALID_DICOM"
                                ELSE "DICOM_READ_ERROR"
                 /\ \A q \in quarantine : q.id = c.id =>
                      q.kind = IF fl.read = "InvalidDicomError" THEN "INVALID_DICOM"
                               ELSE "DICOM_READ_ERROR")

\* a file that is not DICOM was quarantined, then a file that does not
\* exist was answered with its error
C15_Witness ==
  /\ wk[Caller].pc = "idle"
  /\ fl.n = 2
  /\ fl.read = "FileNotFoundError"
  /\ outcome[2] = "FileNotFoundError"
  /\ outcome[1] = "INVALID_DICOM"
  /\ \E q \in quarantine : q.id = 1 /\ q.kind = "INVALID_DICOM"
  /\ model.quarantined_count = 1

\* C16: the quarantined count is the number of files and datasets written
\* into the quarantine tree, and no file quarantine has written a path that
\* an earlier file quarantine had written.
C16_QuarantinedCountIsWrites ==
  /\ model.quarantined_count = Cardinality(quarantine)
  /\ \A q1, q2 \in quarantine :
       (Len(q1.path) = 1 /\ q1.kind = q2.kind /\ q1.path = q2.path) => q1 = q2

\* a file was quarantined, and a second quarantine of it found the target
\* and failed
C16_Witness ==
  /\ wk[Caller].pc = "idle"
  /\ fl.n = 2
  /\ outcome[1] \in {"INVALID_DICOM", "DICOM_READ_ERROR", "MISSING_ATTRIBUTES", "INVALID_STORAGE_CLASS"}
  /\ outcome[2] = "exists"
  /\ model.quarantined_count = 1

\* a date of the form YYYYMMDD that is a calendar date on or after 1900-01-01
IsYYYYMMDD(x) ==
  /\ Len(x) = 8
  /\ AllDigits(x)
  /\ IsCalendarDate(ToInt(SubSeq(x, 1, 4)), ToInt(SubSeq(x, 5, 6)), ToInt(SubSeq(x, 7, 8)))
  /\ ToInt(SubSeq(x, 1, 4)) >= 1900

OrdinalOf(x) == Ordinal(ToInt(SubSeq(x, 1, 4)), ToInt(SubSeq(x, 5, 6)), ToInt(SubSeq(x, 7, 8)))

\* C17: hash_date returns (0, "20000101") exactly when the date is not a
\* valid YYYYMMDD date on or after 1900-01-01 or the patient id is empty; for
\* a valid date that is not too late to be shifted and a patient id, the
\* shift is in 0..3651 and the result is the valid date that many days later.
C17_HashDateDefaultExactlyWhenInvalid ==
  call.fn = "hash_date" =>
    IF ~IsYYYYMMDD(call.a) \/ call.b = ""
      THEN result = [n |-> 0, s |-> DEFAULT_ANON_DATE]
      ELSE result.s # RAISED =>
             /\ result # [n |-> 0, s |-> DEFAULT_ANON_DATE]
             /\ result.n \in 0..3651
             /\ IsYYYYMMDD(result.s)
             /\ OrdinalOf(result.s) = OrdinalOf(call.a) + result.n

\* C19: modify_date accepts three parts, or four parts of which the first is
\* "this" or "*" (in any case of letters); each of year, month and day is the
\* source's for "*" and the integer otherwise; for a valid date and a
\* resulting calendar date it returns the difference in days and the new
\* date as YYYYMMDD, and (0, "20000101") in every other case.
C19_ModifyDateResult ==
  call.fn = "modify_date" =>
    LET op == strip(call.b)
        inner == IF startswith(op, "@modifydate(") /\ endswith(op, ")")
                   THEN strip(SubSeq(op, 13, Len(op) - 1)) ELSE op
        raw == split(inner, "")
        three == Len(raw) = 3
        first == IF three THEN "this" ELSE lower(strip(raw[1]))
        ymd == [i \in 1..3 |-> strip(raw[IF three THEN i ELSE i + 1])]
        source == strptime(call.a)
        from == <<source.y, source.m, source.d>>
        value == [i \in 1..3 |-> IF ymd[i] = "*" THEN from[i] ELSE int(ymd[i])]
        accepted ==
          /\ valid_date(call.a)
          /\ Len(raw) \in {3, 4}
          /\ first \in {"this", "*"}
          /\ \A i \in 1..3 : ymd[i] = "*" \/ int_ok(ymd[i])
          /\ IsCalendarDate(value[1], value[2], value[3])
    IN  IF accepted
          THEN /\ result.s = zfill(ToString(value[1]), 4) \o zfill(ToString(value[2]), 2)
                               \o zfill(ToString(value[3]), 2)
               /\ result.n = Ordinal(value[1], value[2], value[3])
                               - Ordinal(source.y, source.m, source.d)
          ELSE result = [n |-> 0, s |-> DEFAULT_ANON_DATE]

\* the digits of the fraction of a time string
FractionOf(t) == IF find_dot(t, 1) = 0 THEN "" ELSE SubSeq(t, find_dot(t, 1) + 1, Len(t))

\* the second of the day of a valid time string
SecondOfDay(t) ==
  LET base == IF find_dot(t, 1) = 0 THEN t ELSE SubSeq(t, 1, find_dot(t, 1) - 1)
  IN  ToInt(SubSeq(base, 1, 2)) * 3600
        + (IF Len(base) >= 4 THEN ToInt(SubSeq(base, 3, 4)) * 60 ELSE 0)
        + (IF Len(base) >= 6 THEN ToInt(SubSeq(base, 5, 6)) ELSE 0)

\* t1 is before t2 by two whole seconds or more, or by two units or more of
\* their common fractional precision
RECURSIVE Pow10(_)
Pow10(k) == IF k = 0 THEN 1 ELSE 10 * Pow10(k - 1)

TwoUnitsApart(t1, t2) ==
  LET d == SecondOfDay(t2) - SecondOfDay(t1)
      f == ToInt(FractionOf(t2)) - ToInt(FractionOf(t1))
      precision == Len(FractionOf(t1))
  IN  \/ d >= 2
      \/ d = 1 /\ precision > 0 /\ Pow10(precision) + f >= 2
      \/ d = 0 /\ precision > 0 /\ f >= 2

\* HHMMSS[.F] of r1 is less than that of r2, both of one precision
LessAsNumbers(r1, r2) ==
  LET w1 == ToInt(SubSeq(r1, 1, 6))
      w2 == ToInt(SubSeq(r2, 1, 6))
  IN  \/ w1 < w2
      \/ w1 = w2 /\ ToInt(FractionOf(r1)) < ToInt(FractionOf(r2))

\* C20: for one patient id and two valid times of the same precision, the
\* first before the second by at least two seconds or two units of the
\* fraction, the anonymized first time is less than the anonymized second.
C20_HashTimeOrderPreserved ==
  ( /\ call.fn = "hash_time" /\ prev.call.fn = "hash_time"
    /\ call.b # "" /\ call.b = prev.call.b
    /\ valid_time(call.a) /\ valid_time(prev.call.a)
    /\ rstrip(call.a) = call.a /\ rstrip(prev.call.a) = prev.call.a
    /\ Len(call.a) = Len(prev.call.a)
    /\ TwoUnitsApart(prev.call.a, call.a) )
  => LessAsNumbers(prev.result.s, result.s)

\* the element of a source dataset is a valid date of a named patient that
\* the script hashes
HashedDate(ds, tag) ==
  /\ tag \in DOMAIN script
  /\ Dispatch(script[tag]) = "@hashdate"
  /\ ds[tag] # ABSENT
  /\ IsYYYYMMDD(ds[tag])
  /\ ds.pid \notin {ABSENT, ""}

\* C18: the date offsets recorded at capture for the valid study dates of
\* one patient are one number of days, and every hashed date element of a
\* stored image of that patient is its source date that many days later.
C18_DateShiftConstantPerPatient ==
  /\ \A c1, c2 \in captured :
       (c1.pid = c2.pid /\ c1.pid # "" /\ c1.studydate # ABSENT /\ c2.studydate # ABSENT
          /\ IsYYYYMMDD(c1.studydate) /\ IsYYYYMMDD(c2.studydate)) =>
         c1.date_delta = c2.date_delta
  /\ \A img \in images : \A tag \in {"studydate", "birthdate"} :
       HashedDate(src[img.id], tag) =>
         \A c \in captured :
           (c.pid = src[img.id].pid /\ c.studydate # ABSENT /\ IsYYYYMMDD(c.studydate)) =>
             /\ img.ds[tag] # ABSENT
             /\ IsYYYYMMDD(img.ds[tag])
             /\ OrdinalOf(img.ds[tag]) - OrdinalOf(src[img.id][tag]) = c.date_delta

\* C21: for a time valid_time accepts and a non-empty patient id, hash_time
\* returns a time valid_time accepts (so within 000000..235959.999999) with
\* as many fractional digits as the input has; for any other time or an
\* empty patient id it returns (0, "000000").
C21_HashTimeValidResult ==
  call.fn = "hash_time" =>
    IF ~valid_time(call.a) \/ call.b = ""
      THEN result = [n |-> 0, s |-> DEFAULT_ANON_TIME]
      ELSE /\ result.s # RAISED
           /\ valid_time(result.s)
           /\ Len(FractionOf(result.s)) = Len(FractionOf(rstrip(call.a)))

\* C22: a stored dataset whose source PatientID is empty or absent carries
\* the default anon patient id, which the model maps back to the empty
\* patient id, and lies in that patient's directory with one study
\* directory per source study; a stored dataset with a source PatientID
\* never carries the default id, and carries {site}-000001 when its patient
\* is the first one named in the project.
C22_DefaultPatientOnlyForEmptyID ==
  /\ Lookup(model.patient_id_inv, default_anon_pt_id) = ""
  /\ \A f \in images :
       IF PhiPatientID(src[f.id]) = ""
         THEN /\ f.ds.pid = default_anon_pt_id
              /\ f.path[1] = default_anon_pt_id
              /\ \A g \in images :
                   (PhiPatientID(src[g.id]) = "" /\ src[g.id].study # src[f.id].study)
                     => g.path[2] # f.path[2]
         ELSE /\ f.ds.pid # default_anon_pt_id
              /\ f.path[1] # default_anon_pt_id
              /\ (\A k \in 1..(f.id - 1) : PhiPatientID(src[k]) \in {"", PhiPatientID(src[f.id])})
                   => f.ds.pid = AnonPID(1)

\* the data rows that have a cell in both id columns, as (original id,
\* anonymized id) without the blanks around them
IdRows(f) ==
  LET indices == detect_header_indices(f.header)
      long == {i \in DOMAIN f.rows :
                 Len(f.rows[i]) >= indices.orig_idx /\ Len(f.rows[i]) >= indices.anon_idx}
  IN  [i \in long |-> <<strip(f.rows[i][indices.orig_idx]), strip(f.rows[i][indices.anon_idx])>>]

\* C23: for a readable .csv or .xlsx file with a recognized header: if an
\* original id or an anonymized id stands in two data rows, load_pseudo_keys
\* returns the empty mapping and a message; otherwise the mapping is
\* one-to-one and holds exactly the rows whose two ids are non-empty.
C23_NoPartialOrAmbiguousMapping ==
  ( /\ keyfile.path \in {"keys.csv", "keys.XLSX"}
    /\ keyfile.exists /\ keyfile.readable
    /\ keyfile.header # <<>>
    /\ detect_header_indices(keyfile.header).found )
  => LET ids == IdRows(keyfile)
         twice == \E i, j \in DOMAIN ids :
                    /\ i # j
                    /\ \/ ids[i][1] = ids[j][1] /\ ids[i][1] # ""
                       \/ ids[i][2] = ids[j][2] /\ ids[i][2] # ""
     IN  IF twice
           THEN keys.mapping = EmptyMap /\ keys.messages # <<>>
           ELSE /\ Injective(keys.mapping)
                /\ DOMAIN keys.mapping = {ids[i][1] : i \in {k \in DOMAIN ids : ids[k][1] # "" /\ ids[k][2] # ""}}
                /\ \A i \in DOMAIN ids :
                     (ids[i][1] # "" /\ ids[i][2] # "") => keys.mapping[ids[i][1]] = ids[i][2]

\* the capture_phi step of the caller's dataset, with pseudo-key lookup
\* enabled and the required attributes present
KeyedCapture ==
  /\ wk[Caller].pc = "capture"
  /\ wk'[Caller].pc \in {"quarantine", "transform"}
  /\ pseudo.enabled
  /\ ~capture_phi_raises(wk[Caller].ds)

\* what capture_phi does with a PatientID that pseudo_key_map does not
\* list: quarantine without a change of the model or the images tree, or an
\* anon id minted from the patient counter for a patient that has none
UnlistedPatient(phi) ==
  IF pseudo.quarantine_on_missing_id
    THEN /\ wk'[Caller].pc = "quarantine"
         /\ wk'[Caller].qkind = "CAPTURE_PHI_ERROR"
         /\ model' = model
         /\ issued' = issued
         /\ images' = images
    ELSE /\ wk'[Caller].pc = "transform"
         /\ phi \notin DOMAIN model.patient_id_map =>
              /\ model'.next_patient_counter = model.next_patient_counter + 1
              /\ model'.patient_id_map[phi] = AnonPID(model'.next_patient_counter)

\* a dataset quarantined by capture_phi has no file in the images tree
QuarantinedIsNotStored ==
  \A i \in DOMAIN outcome :
    outcome[i] = "CAPTURE_PHI_ERROR" =>
      /\ \A img \in images : img.id # i
      /\ \E q \in quarantine : q.id = i /\ q.kind = "CAPTURE_PHI_ERROR" /\ q.ds = src[i]

\* C24 as stated: with pseudo-key lookup configured, a dataset whose
\* PatientID is not in the pseudo-key map is quarantined when
\* quarantine_on_missing_id is true, with nothing written to the images
\* tree and no anon patient id issued, and gets an anon patient id minted
\* from the patient counter when it is false; a patient id that is in the
\* map always has exactly the operator-supplied anon id after capture_phi.
C24_ListedPatientAlwaysGetsKey ==
  /\ QuarantinedIsNotStored
  /\ [][KeyedCapture =>
          LET phi == PhiPatientID(wk[Caller].ds)
          IN  IF phi \notin DOMAIN pseudo.map THEN UnlistedPatient(phi)
              ELSE /\ wk'[Caller].pc = "transform"
                   /\ model'.patient_id_map[phi] = pseudo.map[phi]]_vars

\* C24: with pseudo-key lookup configured, a dataset whose PatientID is not
\* in the pseudo-key map is quarantined when quarantine_on_missing_id is
\* true, with nothing written to the images tree and no anon patient id
\* issued, and gets an anon patient id minted from the patient counter when
\* it is false; a patient id that is in the map and has no anon id yet gets
\* exactly the operator-supplied anon id.
C24_NewListedPatientGetsKey ==
  /\ QuarantinedIsNotStored
  /\ [][KeyedCapture =>
          LET phi == PhiPatientID(wk[Caller].ds)
          IN  IF phi \notin DOMAIN pseudo.map THEN UnlistedPatient(phi)
              ELSE /\ wk'[Caller].pc = "transform"
                   /\ phi \notin DOMAIN model.patient_id_map =>
                        model'.patient_id_map[phi] = pseudo.map[phi]]_vars

\* a dataset of an unlisted patient was quarantined by capture_phi, and a
\* dataset of a listed patient was stored under the operator-supplied id
C24_Witness ==
  /\ fl.n = 2
  /\ wk[Caller].pc = "idle"
  /\ src[1].pid = "P2" /\ outcome[1] = "CAPTURE_PHI_ERROR"
  /\ src[2].pid = "P1" /\ outcome[2] = "stored"
  /\ "P2" \notin DOMAIN model.patient_id_map
  /\ model.patient_id_map["P1"] = pseudo.map["P1"]
  /\ \E img \in images : img.id = 2 /\ img.ds.pid = pseudo.map["P1"]

Tokens == <<"@empty", "uid", "acc", "@hashdate", "@modifydate", "@hashtime", "@round", "@param">>

\* the position in the table of the first token that occurs in the
\* operation as a substring, 0 when none does
FirstToken(operation) ==
  IF \E k \in 1..Len(Tokens) : Contains(operation, Tokens[k])
    THEN CHOOSE k \in 1..Len(Tokens) :
           /\ Contains(operation, Tokens[k])
           /\ \A j \in 1..(k - 1) : ~Contains(operation, Tokens[j])
    ELSE 0

\* what each transform gives for a value
TransformOf(k, operation, value, patient_id) ==
  CASE k = 0 -> value
    [] k = 1 -> ""
    [] k = 2 -> AnonUID(1)
    [] k = 3 -> AnonAcc(1)
    [] k = 4 -> hash_date(value, patient_id, TRUE).s
    [] k = 5 -> modify_date(value, operation, TRUE).s
    [] k = 6 -> hash_time(value, patient_id).s
    [] k = 7 -> round_age(value, ToInt(extract_first_digit(remove_all(operation, "@round"))))
    [] k = 8 -> get_script_param(operation)

\* an operation that selects @round and gives no width
RoundWithoutWidth(operation) ==
  FirstToken(operation) = 7 /\ extract_first_digit(remove_all(operation, "@round")) = NoneVal

\* C26 as stated: the transform applied to an element of a kept tag, on a
\* new model, is that of the first token in the order @empty, uid, acc,
\* @hashdate, @modifydate, @hashtime, @round, @param that occurs in the
\* operation as a substring, and no transform is applied exactly when the
\* operation is empty, is @keep or holds none of the tokens.
C26_FirstTokenAlwaysApplied ==
  call.fn = "anonymize_element" =>
    /\ result.n = FirstToken(call.b)
    /\ result.n = 0 <=> (call.b = "" \/ call.b = "@keep" \/ FirstToken(call.b) = 0)
    /\ result.n = 0 => result.s = call.a

\* C26: the transform applied to an element of a kept tag, on a new model,
\* is that of the first token in the order @empty, uid, acc, @hashdate,
\* @modifydate, @hashtime, @round, @param that occurs in the operation as a
\* substring, and its result is the new value; no transform is applied
\* exactly when the operation is empty, is @keep, holds none of the
\* tokens, or selects @round without a digit for the width.
C26_FirstTokenApplied ==
  call.fn = "anonymize_element" =>
    /\ result.n = IF RoundWithoutWidth(call.b) THEN 0 ELSE FirstToken(call.b)
    /\ result.n = 0 <=>
         (call.b = "" \/ call.b = "@keep" \/ FirstToken(call.b) = 0 \/ RoundWithoutWidth(call.b))
    /\ result.s = TransformOf(result.n, call.b, call.a, IF call.pad THEN "P1" ELSE "")

\* an operation that names @round before @hashtime was applied to a time
\* value, and the value is the hashed time
C26_Witness ==
  /\ call.fn = "anonymize_element"
  /\ call.b = "@round(5)@hashtime"
  /\ call.a = "075930"
  /\ call.pad
  /\ result.n = 6
  /\ result.s = hash_time("075930", "P1").s
  /\ result.s # call.a

\* the multiples of width nearest to n
NearestMultiples(n, width) ==
  IF width = 0 THEN {0}
  ELSE LET ms == {k * width : k \in 0..(n \div width + 1)}
           dist(x) == IF x >= n THEN x - n ELSE n - x
       IN  {x \in ms : \A y \in ms : dist(x) <= dist(y)}

\* C29: for an age string with a digit and a width of 0 to 9, round_age
\* returns without error the digits rounded to a nearest multiple of the
\* width followed by the letters, with one "0" in front when that has odd
\* length, so the result has even length; an age string without digits
\* comes back unchanged, and an empty or missing one gives "".
C29_RoundAgeResult ==
  call.fn = "round_age" =>
    LET width == ToInt(call.b)
    IN  IF call.a = NoneVal \/ strip(call.a) = "" THEN result.s = ""
        ELSE IF filter_isdigit(call.a) = "" THEN result.s = call.a
        ELSE /\ result.s # RAISED
             /\ Len(result.s) % 2 = 0
             /\ \E x \in NearestMultiples(ToInt(filter_isdigit(call.a)), width) :
                  LET res == ToString(x) \o filter_isalpha(call.a)
                  IN  result.s = IF Len(res) % 2 # 0 THEN "0" \o res ELSE res

\* the tags of the elements a dataset holds
TagsOf(ds) ==
  {WalkTags[i] : i \in {j \in 1..Len(WalkTags) :
     IF WalkTags[j] = "seq" THEN ds.seq # <<>> ELSE ds[WalkTags[j]] # ABSENT}}

\* every element of the items of a sequence, and of the items of their
\* sequences, has its tag in tag_keep
RECURSIVE ItemsKept(_)
ItemsKept(items) ==
  \A k \in 1..Len(items) :
    /\ TagsOf(items[k]) \subseteq DOMAIN script
    /\ items[k].deid = ABSENT
    /\ ItemsKept(items[k].seq)

\* C27: when the walk of an anonymize is over, every element left in the
\* dataset, at the top level and in every item of every sequence, has its
\* tag in tag_keep; in a stored dataset the elements with a tag outside
\* tag_keep are among PatientID, PatientName and the de-identification
\* elements added after the walk, all at the top level.
C27_OnlyKeptTagsRemain ==
  /\ wk[Caller].pc = "patient" =>
       /\ TagsOf(wk[Caller].ds) \subseteq DOMAIN script
       /\ wk[Caller].ds.deid = ABSENT
       /\ ItemsKept(wk[Caller].ds.seq)
  /\ \A img \in images :
       /\ TagsOf(img.ds) \ DOMAIN script \subseteq {"pid", "name"}
       /\ ItemsKept(img.ds.seq)

\* a dataset was stored whose source held an item, inside an item of a kept
\* sequence, with an element outside tag_keep
C27_Witness ==
  /\ "seq" \in DOMAIN script
  /\ \E img \in images :
       /\ Len(src[img.id].seq) = 1
       /\ Len(src[img.id].seq[1].seq) = 1
       /\ src[img.id].seq[1].seq[1].frame # ABSENT
       /\ Len(img.ds.seq) = 1
       /\ Len(img.ds.seq[1].seq) = 1
       /\ img.ds.seq[1].seq[1].frame = ABSENT
       /\ img.ds.deid = "YES"

\* the @hashdate and @hashtime elements of a dataset or of an item are the
\* source values shifted with the patient id
ShiftedWith(patient_id, source, anon) ==
  /\ \A t \in {"studydate", "birthdate"} :
       (t \in DOMAIN script /\ source[t] # ABSENT /\ valid_date(source[t]))
         => anon[t] = hash_date(source[t], patient_id, TRUE).s
  /\ \A t \in {"studytime", "birthtime"} :
       (t \in DOMAIN script /\ source[t] # ABSENT /\ valid_time(source[t]))
         => anon[t] = hash_time(source[t], patient_id).s
  /\ "seq" \in DOMAIN script => Len(anon.seq) = Len(source.seq)

\* C30: in a stored dataset every @hashdate and @hashtime element with a
\* valid source value, at the top level before and after the PatientID tag
\* and in the items of sequences, is the source value shifted with the
\* PatientID of the source dataset, whatever the script does with the
\* PatientID tag.
C30_ShiftedWithTopLevelPatientID ==
  \A img \in images :
    LET patient_id == PhiPatientID(src[img.id])
        source == src[img.id]
    IN  /\ ShiftedWith(patient_id, source, img.ds)
        /\ "seq" \in DOMAIN script =>
             \A k \in 1..Len(source.seq) :
               /\ ShiftedWith(patient_id, source.seq[k], img.ds.seq[k])
               /\ \A j \in 1..Len(source.seq[k].seq) :
                    ShiftedWith(patient_id, source.seq[k].seq[j], img.ds.seq[k].seq[j])

\* C28: the autosave thread keeps running for as long as the controller is
\* active: in every interleaving of __init__ with the start of the thread,
\* an active controller's autosave thread has not left its loop, so that a
\* model change made while the controller is active is still picked up by it.
C28_AutosaveRunsWhileActive ==
  active => auto_pc # "end"

=============================================================================
